---- MODULE Spec2Model ----
(***************************************************************************)
(* Scripture ingestion endpoint of Vaidika Vangamaya                       *)
(* (app/gita/[chapter]/[verse]/page.tsx, POST) as a state machine.          *)
(*                                                                         *)
(* Node runs the handler of every request on one thread: the code between  *)
(* two awaits is one atomic step, and steps of different requests          *)
(* interleave at the awaits (request.json, fs.mkdir x2, fs.writeFile x2).   *)
(* fs.writeFile is open(path, 'w') followed by a write at offset 0, so a     *)
(* write in flight has two steps with the other requests' steps between.   *)
(***************************************************************************)
EXTENDS Integers, Sequences, FiniteSets, TLC

\* ------------------------------------------------------------------ bounds
MaxCalls == 2
MaxTime == 1
MaxChapters == 2
MaxVerses == 1

Calls == 1..MaxCalls

\* --------------------------------------------------------------- documents
\* The forms of a verse's languages field: a non-empty mapping whose entries
\* all have a non-empty text, no field, an empty mapping, a mapping with an
\* entry whose text is empty.
LanguageForms == {"ok", "missing", "empty", "emptyText"}

\* Author ids, in the order the checks walk a commentaries mapping.
Authors == <<"shankara", "ramanuja">>
AuthorIds == {Authors[i] : i \in 1..Len(Authors)}

\* One entry of a commentaries mapping: its map key, its author.id, and whether
\* its languages hold a non-empty text ("ok") or none ("none").
MkCommentary(key, authorId, texts) ==
    [key |-> key, authorId |-> authorId, texts |-> texts]

\* The commentaries field of a verse: absent, or a mapping given as the set of
\* its entries (one per key).
MkCommentaries(present, entries) == [present |-> present, entries |-> entries]

NoCommentaries == MkCommentaries(FALSE, {})

\* No location field on a verse.
NoLocation == [chapter |-> 0, verse |-> 0]

\* A verse: its number field, its languages, its commentaries, and the
\* location field it carries.
MkFullVerse(n, lang, com, loc) ==
    [number |-> n, languages |-> lang, commentaries |-> com, location |-> loc]

\* A verse of a payload with no commentaries and no location field.
MkVerse(n, lang) == MkFullVerse(n, lang, NoCommentaries, NoLocation)

\* A chapter with a verses mapping.
MkChapter(n, vs) == [number |-> n, hasVerses |-> TRUE, verses |-> vs]

\* A payload: shape "doc" is an object with a chapters mapping, shape "scalar"
\* is any value that is not such an object.  total is a verse total the author
\* supplied beside the mappings.
MkPayload(shape, chapters, total) ==
    [shape |-> shape, chapters |-> chapters, total |-> total]

NoPayload == MkPayload("none", <<>>, 0)

SuppliedTotals == {0}

\* Well-formed documents: any set of chapter keys (gaps allowed), each chapter
\* with verses 1..n for some n in 0..MaxVerses.
ValidDocs ==
    UNION { { MkPayload("doc",
                [c \in S |-> MkChapter(c, [v \in 1..vs[c] |-> MkVerse(v, "ok")])],
                t) : vs \in [S -> 0..MaxVerses], t \in SuppliedTotals }
            : S \in SUBSET (1..MaxChapters) }

\* The document with every chapter and every verse.
FullDoc ==
    MkPayload("doc",
        [c \in 1..MaxChapters |->
            MkChapter(c, [v \in 1..MaxVerses |-> MkVerse(v, "ok")])],
        0)

\* Malformed payloads: a value that is no object, and FullDoc with its first
\* verse carrying a number that differs from its key, no languages mapping, or
\* both.
FirstVerseChapter(d) ==
    CHOOSE c \in DOMAIN d.chapters :
        /\ DOMAIN d.chapters[c].verses # {}
        /\ \A c2 \in DOMAIN d.chapters :
              DOMAIN d.chapters[c2].verses # {} => c <= c2

WithVerse(d, verse) ==
    LET c == FirstVerseChapter(d)
    IN  [d EXCEPT !.chapters[c].verses[1] = verse]

InvalidDocs ==
    {MkPayload("scalar", <<>>, 0)}
    \cup {WithVerse(FullDoc, verse)
            : verse \in {MkVerse(2, "ok"), MkVerse(1, "missing"),
                         MkVerse(2, "missing")}}

\* The payloads of requests the envelope and auth checks refuse.
ProbePayloads == {FullDoc, MkPayload("scalar", <<>>, 0)}

Payloads == ValidDocs \cup InvalidDocs

\* The commentaries fields a verse is given: none, an empty mapping, one entry
\* under the first author's key, two entries of which the first is well formed.
CommentaryOptions ==
    {NoCommentaries, MkCommentaries(TRUE, {})}
    \cup {MkCommentaries(TRUE, {MkCommentary(Authors[1], a, t)})
            : a \in AuthorIds, t \in {"ok", "none"}}
    \cup {MkCommentaries(TRUE, {MkCommentary(Authors[1], Authors[1], "ok"),
                                MkCommentary(Authors[2], a, t)})
            : a \in AuthorIds, t \in {"ok", "none"}}

\* The verse under keys (c, v) with one field changed: another number, another
\* form of languages, other commentaries, a location field that agrees or
\* disagrees with the keys.
VerseVariants(c, v, verse) ==
    {[verse EXCEPT !.number = v + 1]}
    \cup {[verse EXCEPT !.languages = l] : l \in LanguageForms}
    \cup {[verse EXCEPT !.commentaries = k] : k \in CommentaryOptions}
    \cup {[verse EXCEPT !.location = loc]
            : loc \in {[chapter |-> c, verse |-> v],
                       [chapter |-> c + 1, verse |-> v + 1]}}

\* The chapter under key c with one thing changed: another number, no verses
\* mapping, one verse removed, one verse changed in one field.
ChapterVariants(c, ch) ==
    {[ch EXCEPT !.number = c + 1],
     [ch EXCEPT !.hasVerses = FALSE, !.verses = <<>>]}
    \cup {[ch EXCEPT !.verses = [x \in DOMAIN ch.verses \ {v} |-> ch.verses[x]]]
            : v \in DOMAIN ch.verses}
    \cup UNION {{[ch EXCEPT !.verses[v] = x]
                    : x \in VerseVariants(c, v, ch.verses[v])}
                : v \in DOMAIN ch.verses}

\* The documents that differ from d in at most one thing: a chapter removed or
\* changed in one thing.
Vary(d) ==
    {d}
    \cup {[d EXCEPT !.chapters = [x \in DOMAIN d.chapters \ {c} |-> d.chapters[x]]]
            : c \in DOMAIN d.chapters}
    \cup UNION {{[d EXCEPT !.chapters[c] = x]
                    : x \in ChapterVariants(c, d.chapters[c])}
                : c \in DOMAIN d.chapters}

\* The raw payloads given to the validator: a value that is no object, and the
\* documents within two changes of the full document.
RawPayloads ==
    {MkPayload("scalar", <<>>, 0)} \cup UNION {Vary(e) : e \in Vary(FullDoc)}

\* ------------------------------------------------------ sequences of keys
RECURSIVE SortedSeq(_)
\* The keys of a mapping in ascending numeric order (the order in which
\* JSON.stringify and Object.keys list integer-like keys).
SortedSeq(S) ==
    IF S = {} THEN <<>>
    ELSE LET m == CHOOSE x \in S : \A y \in S : x <= y
         IN  <<m>> \o SortedSeq(S \ {m})

RECURSIVE Flatten(_)
Flatten(ss) == IF ss = <<>> THEN <<>> ELSE Head(ss) \o Flatten(Tail(ss))

\* --------------------------------------------------------------- validator
\* validateBhagavadGitaShastra: the result record, with the error list in
\* document order and never cut at the first error.
\* An error record: the path chapters.<c>.verses.<v>[.commentaries.<author>]
\* .<field> (verse 0: a field of the chapter; chapter 0: a field of the
\* document) and the reason.
MkCommentaryError(c, v, author, field, reason) ==
    [chapter |-> c, verse |-> v, author |-> author, field |-> field,
     reason |-> reason]

MkError(c, v, field, reason) == MkCommentaryError(c, v, "", field, reason)

\* The checks of an entry without the comparison of author.id to the key.
CommentaryErrorsNoAuthor(c, v, e) ==
    IF e.texts # "ok"
    THEN <<MkCommentaryError(c, v, e.key, "languages", "missing")>>
    ELSE <<>>

\* The checks of one commentaries entry.
CommentaryErrors(c, v, e) ==
    (IF e.authorId # e.key
     THEN <<MkCommentaryError(c, v, e.key, "author.id", "key/value mismatch")>>
     ELSE <<>>)
    \o (IF e.texts # "ok"
        THEN <<MkCommentaryError(c, v, e.key, "languages", "missing")>>
        ELSE <<>>)

\* The checks of a commentaries field: none when the field is absent.
CommentariesErrors(c, v, com) ==
    IF ~com.present THEN <<>>
    ELSE Flatten([i \in 1..Len(Authors) |->
            IF \E e \in com.entries : e.key = Authors[i]
            THEN CommentaryErrors(c, v,
                    CHOOSE e \in com.entries : e.key = Authors[i])
            ELSE <<>>])

\* The checks of a verse without the comparison of number to the key.
VerseErrorsNoNumber(c, v, verse) ==
    (IF verse.languages = "missing"
     THEN <<MkError(c, v, "languages", "missing")>>
     ELSE IF verse.languages = "empty"
     THEN <<MkError(c, v, "languages", "empty")>>
     ELSE IF verse.languages = "emptyText"
     THEN <<MkError(c, v, "languages.text", "empty")>> ELSE <<>>)
    \o CommentariesErrors(c, v, verse.commentaries)

\* The checks of one verse.
VerseErrors(c, v, verse) ==
    (IF verse.number # v
     THEN <<MkError(c, v, "number", "key/value mismatch")>> ELSE <<>>)
    \o (IF verse.languages = "missing"
        THEN <<MkError(c, v, "languages", "missing")>>
        ELSE IF verse.languages = "empty"
        THEN <<MkError(c, v, "languages", "empty")>>
        ELSE IF verse.languages = "emptyText"
        THEN <<MkError(c, v, "languages.text", "empty")>> ELSE <<>>)
    \o CommentariesErrors(c, v, verse.commentaries)

\* The checks of one chapter; the verses of a chapter with no verses mapping
\* are not walked.
ChapterErrors(c, ch) ==
    (IF ch.number # c
     THEN <<MkError(c, 0, "number", "key/value mismatch")>> ELSE <<>>)
    \o (IF ~ch.hasVerses
        THEN <<MkError(c, 0, "verses", "missing")>>
        ELSE LET vk == SortedSeq(DOMAIN ch.verses)
             IN  Flatten([i \in 1..Len(vk) |->
                            VerseErrors(c, vk[i], ch.verses[vk[i]])]))

\* A validator that returns at the first error it finds.
ValidateFirstError(p) ==
    IF p.shape # "doc"
    THEN [ok |-> FALSE, hasValue |-> FALSE, thrown |-> FALSE,
          errors |-> <<MkError(0, 0, "chapters", "wrong type")>>]
    ELSE LET ck == SortedSeq(DOMAIN p.chapters)
             errs == Flatten([i \in 1..Len(ck) |->
                                ChapterErrors(ck[i], p.chapters[ck[i]])])
         IN  [ok |-> errs = <<>>, hasValue |-> errs = <<>>, thrown |-> FALSE,
              errors |-> IF errs = <<>> THEN <<>> ELSE <<Head(errs)>>]

\* A validator that reads the entries of languages before it has checked that
\* the field is there: a TypeError on a verse without it.
ValidateDereferencing(p) ==
    IF p.shape # "doc"
    THEN [ok |-> FALSE, hasValue |-> FALSE, thrown |-> FALSE,
          errors |-> <<MkError(0, 0, "chapters", "wrong type")>>]
    ELSE IF \E c \in DOMAIN p.chapters : \E v \in DOMAIN p.chapters[c].verses :
                p.chapters[c].verses[v].languages = "missing"
    THEN [ok |-> FALSE, hasValue |-> FALSE, thrown |-> TRUE, errors |-> <<>>]
    ELSE LET ck == SortedSeq(DOMAIN p.chapters)
             errs == Flatten([i \in 1..Len(ck) |->
                                ChapterErrors(ck[i], p.chapters[ck[i]])])
         IN  [ok |-> errs = <<>>, hasValue |-> errs = <<>>, thrown |-> FALSE,
              errors |-> errs]

\* The result: ok with the value, or the errors; thrown tells an exception
\* from a result.
Validate(p) ==
    IF p.shape # "doc"
    THEN [ok |-> FALSE, hasValue |-> FALSE, thrown |-> FALSE,
          errors |-> <<MkError(0, 0, "chapters", "wrong type")>>]
    ELSE LET ck == SortedSeq(DOMAIN p.chapters)
             errs == Flatten([i \in 1..Len(ck) |->
                                ChapterErrors(ck[i], p.chapters[ck[i]])])
         IN  [ok |-> errs = <<>>, hasValue |-> errs = <<>>, thrown |-> FALSE,
              errors |-> errs]

\* -------------------------------------------------------------- normalizer
\* normalizeBhagavadGita: the same chapter and verse keys, every verse stamped
\* with the location its container keys give.
\* Commentary entries keyed by author id.
NormalizeCommentaries(com) ==
    MkCommentaries(com.present,
        {MkCommentary(e.authorId, e.authorId, e.texts) : e \in com.entries})

\* A normalizer that keeps the location field a verse brings.
NormalizeVerseTrusting(c, v, verse) ==
    [number |-> verse.number, languages |-> verse.languages,
     commentaries |-> NormalizeCommentaries(verse.commentaries),
     location |-> IF verse.location # NoLocation THEN verse.location
                  ELSE [chapter |-> c, verse |-> v]]

\* The verse under keys (c, v), stamped with the location the keys give.
NormalizeVerse(c, v, verse) ==
    [number |-> verse.number, languages |-> verse.languages,
     commentaries |-> NormalizeCommentaries(verse.commentaries),
     location |-> [chapter |-> c, verse |-> v]]

\* A normalizer that takes the verse keys for zero-based indices and moves
\* every verse to the key after its own.
NormalizeRekeyed(value) ==
    [present |-> TRUE,
     chapters |-> [c \in DOMAIN value.chapters |->
        [number |-> value.chapters[c].number,
         hasVerses |-> value.chapters[c].hasVerses,
         verses |-> [v \in {x + 1 : x \in DOMAIN value.chapters[c].verses} |->
                        NormalizeVerse(c, v, value.chapters[c].verses[v - 1])]]]]

Normalize(value) ==
    [present |-> TRUE,
     chapters |-> [c \in DOMAIN value.chapters |->
        [number |-> value.chapters[c].number,
         hasVerses |-> value.chapters[c].hasVerses,
         verses |-> [v \in DOMAIN value.chapters[c].verses |->
                        NormalizeVerse(c, v, value.chapters[c].verses[v])]]]]

NoNormalized == [present |-> FALSE, chapters |-> <<>>]

\* ----------------------------------------------------------- serialization
\* JSON.stringify(x, null, 2) as the sequence of the document's tokens: an
\* opening token, one token per chapter and per verse in ascending key order,
\* a closing token.  Two documents serialize alike only if they are equal.
Token(t, c, v, n, lang, com, lc, lv) ==
    [t |-> t, c |-> c, v |-> v, n |-> n, lang |-> lang, com |-> com,
     lc |-> lc, lv |-> lv]

RawChapterTokens(c, ch) ==
    <<Token("chapter", c, 0, ch.number, "", NoCommentaries, 0, 0)>>
    \o LET vk == SortedSeq(DOMAIN ch.verses)
       IN  [i \in 1..Len(vk) |->
              Token("verse", c, vk[i], ch.verses[vk[i]].number,
                    ch.verses[vk[i]].languages,
                    ch.verses[vk[i]].commentaries,
                    ch.verses[vk[i]].location.chapter,
                    ch.verses[vk[i]].location.verse)]

SerializeRaw(value) ==
    <<Token("open", 0, 0, value.total, "", NoCommentaries, 0, 0)>>
    \o LET ck == SortedSeq(DOMAIN value.chapters)
       IN  Flatten([i \in 1..Len(ck) |-> RawChapterTokens(ck[i], value.chapters[ck[i]])])
    \o <<Token("close", 0, 0, 0, "", NoCommentaries, 0, 0)>>

NormChapterTokens(c, ch) ==
    <<Token("chapter", c, 0, ch.number, "", NoCommentaries, 0, 0)>>
    \o LET vk == SortedSeq(DOMAIN ch.verses)
       IN  [i \in 1..Len(vk) |->
              Token("verse", c, vk[i], ch.verses[vk[i]].number,
                    ch.verses[vk[i]].languages,
                    ch.verses[vk[i]].commentaries,
                    ch.verses[vk[i]].location.chapter,
                    ch.verses[vk[i]].location.verse)]

SerializeNormalized(doc) ==
    <<Token("open", 0, 0, 0, "", NoCommentaries, 0, 0)>>
    \o LET ck == SortedSeq(DOMAIN doc.chapters)
       IN  Flatten([i \in 1..Len(ck) |-> NormChapterTokens(ck[i], doc.chapters[ck[i]])])
    \o <<Token("close", 0, 0, 0, "", NoCommentaries, 0, 0)>>

\* ---------------------------------------------------------------- requests
\* A value of the adminPassword field: a string, or something else.
StrValue(x) == [type |-> "string", v |-> x]
NumValue == [type |-> "number", v |-> "42"]

TheSecret == "s1"
WrongSecret == "s2"
Secrets == {TheSecret, WrongSecret}

\* The request as the handler sees it: whether request.json() parses it, the
\* kind of value the body is, the fields it has and their values.
MkRequest(json, kind, hasPassword, hasPayload, adminPassword, payload) ==
    [json |-> json, kind |-> kind, hasPassword |-> hasPassword,
     hasPayload |-> hasPayload, adminPassword |-> adminPassword,
     payload |-> payload]

NoRequest == MkRequest(FALSE, "none", FALSE, FALSE, NumValue, NoPayload)

Requests ==
    {MkRequest(FALSE, "text", FALSE, FALSE, NumValue, NoPayload)}
    \cup {MkRequest(TRUE, k, FALSE, FALSE, NumValue, NoPayload)
            : k \in {"null", "array", "scalar"}}
    \cup {MkRequest(TRUE, "object", FALSE, TRUE, NumValue, p) : p \in ProbePayloads}
    \cup {MkRequest(TRUE, "object", TRUE, FALSE, StrValue(s), NoPayload)
            : s \in Secrets}
    \cup {MkRequest(TRUE, "object", TRUE, TRUE, a, p)
            : a \in {StrValue(WrongSecret), NumValue}, p \in ProbePayloads}
    \cup {MkRequest(TRUE, "object", TRUE, TRUE, StrValue(TheSecret), p)
            : p \in Payloads}

\* --------------------------------------------------------------- responses
NoSummary == [chapters |-> -1, verses |-> -1]

RawPath(t) == [dir |-> "raw-data", file |-> "bhagavad-gita-raw", stamp |-> t]
NormalizedPath == [dir |-> "data", file |-> "normalized-bhagavad-gita", stamp |-> -1]
NoPath == [dir |-> "", file |-> "", stamp |-> -1]

\* error.message of a rejected store operation, as Node composes it: the error
\* code, the system call and, for the calls that take one, the path.
StoreMessage(code, syscall, path) == [code |-> code, syscall |-> syscall, path |-> path]

NoMessage == StoreMessage("", "", NoPath)

MkResponse(ok, status, message, errors, details, summary, rawPath, normalizedPath) ==
    [ok |-> ok, status |-> status, message |-> message, errors |-> errors,
     details |-> details, normalizedSummary |-> summary, rawPath |-> rawPath,
     normalizedPath |-> normalizedPath]

NoResponse == MkResponse(FALSE, 0, "", <<>>, NoMessage, NoSummary, NoPath, NoPath)

ErrorResponse(status, message) ==
    MkResponse(FALSE, status, message, <<>>, NoMessage, NoSummary, NoPath, NoPath)

MissingSecretResponse ==
    ErrorResponse(500, "Server is not configured for scripture ingestion")

ValidationFailedResponse(errors) ==
    MkResponse(FALSE, 400, "Validation failed", errors, NoMessage, NoSummary,
               NoPath, NoPath)

\* The failure response without the store's message.
StoreFailedNoDetails(details) ==
    MkResponse(FALSE, 500, "Failed to write scripture data to the filesystem.",
               <<>>, NoMessage, NoSummary, NoPath, NoPath)

StoreFailedResponse(details) ==
    MkResponse(FALSE, 500, "Failed to write scripture data to the filesystem.",
               <<>>, details, NoSummary, NoPath, NoPath)

RECURSIVE SumSeq(_)
SumSeq(q) == IF q = <<>> THEN 0 ELSE Head(q) + SumSeq(Tail(q))

\* The reduce adding up the keys of each chapter object, not of its verses.
SummaryOfChapterKeys(doc) ==
    LET ck == SortedSeq(DOMAIN doc.chapters)
    IN  [chapters |-> Len(ck),
         verses |-> SumSeq([i \in 1..Len(ck) |->
                              Cardinality(DOMAIN doc.chapters[ck[i]])])]

\* chapterCount and verseCount: Object.keys(chapters).length, and the reduce
\* over Object.values(chapters) that adds up Object.keys(verses).length.
Summary(doc) ==
    LET ck == SortedSeq(DOMAIN doc.chapters)
    IN  [chapters |-> Len(ck),
         verses |-> SumSeq([i \in 1..Len(ck) |->
                              Cardinality(DOMAIN doc.chapters[ck[i]].verses)])]

SuccessResponse(doc, rawPath) ==
    MkResponse(TRUE, 200, "Ingest successful", <<>>, NoMessage, Summary(doc),
               rawPath, NormalizedPath)

\* !adminSecret: the variable is unset or empty.
SecretMissing(secret) == secret = ""

\* The checks without the comparison of adminPassword to the secret.
BodyErrorNoCompare(secret, r) ==
    IF ~r.json THEN ErrorResponse(400, "Invalid JSON body.")
    ELSE IF r.kind # "object" \/ ~r.hasPassword \/ ~r.hasPayload
    THEN ErrorResponse(400,
            "Request body must be an object with adminPassword and payload fields.")
    ELSE IF r.adminPassword.type # "string"
    THEN ErrorResponse(400, "adminPassword must be a string.")
    ELSE NoResponse

\* Checks whose 401 response tells the caller the value it should have sent.
BodyErrorEchoesSecret(secret, r) ==
    IF ~r.json THEN ErrorResponse(400, "Invalid JSON body.")
    ELSE IF r.kind # "object" \/ ~r.hasPassword \/ ~r.hasPayload
    THEN ErrorResponse(400,
            "Request body must be an object with adminPassword and payload fields.")
    ELSE IF r.adminPassword.type # "string"
    THEN ErrorResponse(400, "adminPassword must be a string.")
    ELSE IF r.adminPassword.v # secret
    THEN ErrorResponse(401, secret)
    ELSE NoResponse

\* The checks between request.json() and the validator, in the code's order:
\* the response of the first check that fails, NoResponse when all pass.
BodyError(secret, r) ==
    IF ~r.json THEN ErrorResponse(400, "Invalid JSON body.")
    ELSE IF r.kind # "object" \/ ~r.hasPassword \/ ~r.hasPayload
    THEN ErrorResponse(400,
            "Request body must be an object with adminPassword and payload fields.")
    ELSE IF r.adminPassword.type # "string"
    THEN ErrorResponse(400, "adminPassword must be a string.")
    ELSE IF r.adminPassword.v # secret
    THEN ErrorResponse(401, "Unauthorized")
    ELSE NoResponse

\* The handler without the check of the validator's verdict.
AcceptedUnchecked(vr) == TRUE

\* !validationResult.ok || !validationResult.value, negated.
Accepted(vr) == vr.ok /\ vr.hasValue

\* ------------------------------------------------------------------- state
VARIABLES
    adminSecret,  \* process.env.SCRIPTURE_ADMIN_SECRET ("" when unset)
    now,          \* the clock new Date() reads, in milliseconds
    dirs,         \* the directories that exist
    files,        \* path -> content, for the files that exist
    pc,           \* call -> the await the call is suspended at
    req,          \* call -> its request
    normalized,   \* call -> the handler's local `normalized`
    rawPath,      \* call -> the handler's local `rawPath`
    resp,         \* call -> the response returned
    validated,    \* the calls on which the validator was invoked
    ops,          \* call -> the store operations it has completed, with results
    lastOk,       \* the `normalized` of the latest call that returned ok:true
    overlapped,   \* whether any call started while another was in flight
    document,     \* validator and normalizer on their own: the raw payload
    verdict,      \*   the validator's result for it
    once,         \*   the normalizer's output for the validated value
    twice,        \*   the normalizer's output for its own output
    stage,        \*   how far the pipeline has run
    gita,                 \* verse reader: the imported gitaData.chapters
    urlChapter,           \*   params.chapter of the current URL
    urlVerse,             \*   params.verse of the current URL
    isChapterExpanded,    \*   the layout's chapter accordion flag
    isVerseExpanded,      \*   the layout's verse accordion flag
    openCommentaryIndex,  \*   the page's open commentary (NullIndex: none)
    trail,                \*   the positions an unbroken run of Next clicks
                          \*   from the first verse has shown
    lastClick,            \*   the navigation control clicked last
    cameFrom,             \*   the URL parameters it was clicked at
    bookChapters,         \* book detail page: chapters.length of the props
    openChapterIndex,     \*   the expanded chapter (NullIndex: none)
    isChapterListOpen,    \*   the chapters list accordion flag
    isSidebarOpen,        \*   the mobile sidebar flag
    chapterClick,         \*   the last chapter click: the index clicked and
                          \*   the openChapterIndex it found
    books,                \* library page: bookData.books
    searchQuery,          \*   the search box
    selectedCategories,   \*   the category labels selected, in click order
    selectedAuthor,       \*   the author name selected ("": all authors)
    selectedSects,        \*   the sect labels selected, in click order
    isCategoryOpen,       \*   the three filter panels
    isAuthorOpen,
    isSectOpen,
    listed,               \*   the books the page renders: filteredBooks
    mounted,              \* navbar: whether the component is mounted
    isOpen,               \*   the mobile menu flag
    isScrolled,           \*   the scrolled-styling flag
    pathname,             \*   usePathname()
    bodyOverflow,         \*   document.body.style.overflow
    lockRanFor,           \*   the isOpen the scroll lock effect last ran for
    routeRanFor,          \*   the pathname the route effect last ran for
    lastEvent             \*   the last event the navbar handled (a route
                          \*   change with the menu open: "routeMenuOpen")

\* The state of the ingestion endpoint.
endpoint == <<adminSecret, now, dirs, files, pc, req, normalized, rawPath, resp,
              validated, ops, lastOk, overlapped>>

\* The state of the validator and normalizer run on their own.
pipeline == <<document, verdict, once, twice, stage>>

\* The state of the verse reader (layout and verse page).
reader == <<gita, urlChapter, urlVerse, isChapterExpanded, isVerseExpanded,
            openCommentaryIndex, trail, lastClick, cameFrom>>

\* The state of the book detail page.
bookPage == <<bookChapters, openChapterIndex, isChapterListOpen,
              isSidebarOpen, chapterClick>>

\* The state of the library page.
library == <<books, searchQuery, selectedCategories, selectedAuthor,
             selectedSects, isCategoryOpen, isAuthorOpen, isSectOpen, listed>>

\* The state of the navbar.
navbar == <<mounted, isOpen, isScrolled, pathname, bodyOverflow, lockRanFor,
            routeRanFor, lastEvent>>

\* The state of the client pages.
ui == <<reader, bookPage, library, navbar>>

\* What an action of one page leaves alone.
besidesReader == <<endpoint, pipeline, bookPage, library, navbar>>

besidesBook == <<endpoint, pipeline, reader, library, navbar>>

besidesLibrary == <<endpoint, pipeline, reader, bookPage, navbar>>

besidesNavbar == <<endpoint, pipeline, reader, bookPage, library>>

vars == <<endpoint, pipeline, ui>>

\* A route without the parameter: useParams() has no such key.
NoParam == -1

\* openCommentaryIndex === null.
NullIndex == -1

\* The verse reader is not on screen.
ReaderOff ==
    /\ gita = <<>>
    /\ urlChapter = NoParam
    /\ urlVerse = NoParam
    /\ isChapterExpanded = FALSE
    /\ isVerseExpanded = FALSE
    /\ openCommentaryIndex = NullIndex
    /\ trail = <<>>
    /\ lastClick = "none"
    /\ cameFrom = <<0, 0>>

\* No chapter was clicked yet.
NoChapterClick == [index |-> NullIndex, found |-> NullIndex]

\* The book detail page is not on screen.
BookOff ==
    /\ bookChapters = 0
    /\ openChapterIndex = NullIndex
    /\ isChapterListOpen = FALSE
    /\ isSidebarOpen = FALSE
    /\ chapterClick = NoChapterClick

\* The library page is not on screen.
LibraryOff ==
    /\ books = <<>>
    /\ searchQuery = <<>>
    /\ selectedCategories = <<>>
    /\ selectedAuthor = ""
    /\ selectedSects = <<>>
    /\ isCategoryOpen = FALSE
    /\ isAuthorOpen = FALSE
    /\ isSectOpen = FALSE
    /\ listed = <<>>

\* The navbar is not on screen.
NavbarOff ==
    /\ mounted = FALSE
    /\ isOpen = FALSE
    /\ isScrolled = FALSE
    /\ pathname = "/"
    /\ bodyOverflow = ""
    /\ lockRanFor = "never"
    /\ routeRanFor = "never"
    /\ lastEvent = "none"

\* No client page is on screen.
UiOff == ReaderOff /\ BookOff /\ LibraryOff /\ NavbarOff

\* The error codes a store operation can fail with: a directory or file that
\* may not be made or opened, a device with no room for the data.
StoreErrors == {"EACCES", "ENOSPC"}

StoreErrorsOf(syscall) == IF syscall = "write" THEN {"ENOSPC"} ELSE {"EACCES"}

InFlight(c) == pc[c] \notin {"idle", "done"}

\* No validation result yet.
NoVerdict == [ok |-> FALSE, hasValue |-> FALSE, thrown |-> FALSE, errors |-> <<>>]

Init ==
    /\ adminSecret \in {"", TheSecret}
    /\ now = 0
    /\ dirs = {}
    /\ files = <<>>
    /\ pc = [c \in Calls |-> "idle"]
    /\ req = [c \in Calls |-> NoRequest]
    /\ normalized = [c \in Calls |-> NoNormalized]
    /\ rawPath = [c \in Calls |-> NoPath]
    /\ resp = [c \in Calls |-> NoResponse]
    /\ validated = {}
    /\ ops = [c \in Calls |-> <<>>]
    /\ lastOk = NoNormalized
    /\ overlapped = FALSE
    /\ document = NoPayload
    /\ verdict = NoVerdict
    /\ once = NoNormalized
    /\ twice = NoNormalized
    /\ stage = "off"
    /\ UiOff

\* The call returns `response`.
Return(c, response) ==
    /\ resp' = [resp EXCEPT ![c] = response]
    /\ pc' = [pc EXCEPT ![c] = "done"]

\* The order of the awaits inside the try block.
TryNext(step) ==
    CASE step = "mkdirRaw" -> "mkdirNorm"
      [] step = "mkdirNorm" -> "rawOpen"
      [] step = "rawOpen" -> "rawData"
      [] step = "rawData" -> "normOpen"
      [] step = "normOpen" -> "normData"
      [] OTHER -> "done"

\* The store operation an await of the try block belongs to.
OpOf(step) ==
    CASE step = "mkdirRaw" -> "mkdirRaw"
      [] step = "mkdirNorm" -> "mkdirNorm"
      [] step \in {"rawOpen", "rawData"} -> "writeRaw"
      [] OTHER -> "writeNorm"

Completed(c, result, message) ==
    ops' = [ops EXCEPT ![c] = Append(@, [op |-> OpOf(pc[c]), result |-> result,
                                         message |-> message])]

\* A catch block that swallows the error: the try block's next await runs.
CatchAndGoOn(c, error) ==
    /\ Completed(c, error.code, error)
    /\ pc' = [pc EXCEPT ![c] = TryNext(pc[c])]
    /\ UNCHANGED resp

\* A catch block that does not return: the handler goes on to the success
\* response.
CatchFallsThrough(c, error) ==
    /\ Completed(c, error.code, error)
    /\ Return(c, SuccessResponse(normalized[c], rawPath[c]))

\* The catch block: a rejected await ends the call with error.message.
Catch(c, error) ==
    /\ Completed(c, error.code, error)
    /\ Return(c, StoreFailedResponse(error))

\* A request arrives; the handler runs up to `await request.json()`.  Calls
\* are numbered in their order of arrival.
Start(c, r) ==
    /\ pc[c] = "idle"
    /\ \A d \in Calls : d < c => pc[d] # "idle"
    /\ req' = [req EXCEPT ![c] = r]
    /\ overlapped' = (overlapped \/ \E d \in Calls : InFlight(d))
    /\ IF SecretMissing(adminSecret)
       THEN Return(c, MissingSecretResponse)
       ELSE /\ pc' = [pc EXCEPT ![c] = "json"]
            /\ UNCHANGED resp
    /\ UNCHANGED <<pipeline, ui>>
    /\ UNCHANGED <<adminSecret, now, dirs, files, normalized, rawPath,
                   validated, ops, lastOk>>

\* A handler that yields between the validator and the normalizer: the step
\* that validates an acceptable payload stops there, the next one normalizes.
ReadBodyYielding(c) ==
    /\ pc[c] = "json"
    /\ LET r == req[c]
           e == BodyError(adminSecret, r)
           vr == Validate(r.payload)
       IN  IF e # NoResponse
           THEN /\ Return(c, e)
                /\ UNCHANGED <<validated, normalized, rawPath>>
           ELSE /\ validated' = validated \cup {c}
                /\ IF ~Accepted(vr)
                   THEN /\ Return(c, ValidationFailedResponse(vr.errors))
                        /\ UNCHANGED <<normalized, rawPath>>
                   ELSE IF c \notin validated
                   THEN UNCHANGED <<normalized, rawPath, pc, resp>>
                   ELSE /\ normalized' = [normalized EXCEPT ![c] = Normalize(r.payload)]
                        /\ rawPath' = [rawPath EXCEPT ![c] = RawPath(now)]
                        /\ pc' = [pc EXCEPT ![c] = "mkdirRaw"]
                        /\ UNCHANGED resp
    /\ UNCHANGED <<pipeline, ui>>
    /\ UNCHANGED <<adminSecret, now, dirs, files, req, ops, lastOk, overlapped>>

\* request.json() settles; the handler runs up to `await fs.mkdir(rawDir)`.
ReadBody(c) ==
    /\ pc[c] = "json"
    /\ LET r == req[c]
           e == BodyError(adminSecret, r)
           vr == Validate(r.payload)
       IN  IF e # NoResponse
           THEN /\ Return(c, e)
                /\ UNCHANGED <<validated, normalized, rawPath>>
           ELSE /\ validated' = validated \cup {c}
                /\ IF ~Accepted(vr)
                   THEN /\ Return(c, ValidationFailedResponse(vr.errors))
                        /\ UNCHANGED <<normalized, rawPath>>
                   ELSE /\ normalized' = [normalized EXCEPT ![c] = Normalize(r.payload)]
                        /\ rawPath' = [rawPath EXCEPT ![c] = RawPath(now)]
                        /\ pc' = [pc EXCEPT ![c] = "mkdirRaw"]
                        /\ UNCHANGED resp
    /\ UNCHANGED <<pipeline, ui>>
    /\ UNCHANGED <<adminSecret, now, dirs, files, req, ops, lastOk, overlapped>>

DirOf(step) == IF step = "mkdirRaw" THEN "raw-data" ELSE "data"

DirPath(dir) == [dir |-> dir, file |-> "", stamp |-> -1]

\* fs.mkdir(dir, {recursive: true}) settles.
Mkdir(c, outcome) ==
    /\ pc[c] \in {"mkdirRaw", "mkdirNorm"}
    /\ IF outcome = "ok"
       THEN /\ dirs' = dirs \cup {DirOf(pc[c])}
            /\ Completed(c, "ok", NoMessage)
            /\ pc' = [pc EXCEPT ![c] = TryNext(pc[c])]
            /\ UNCHANGED resp
       ELSE /\ outcome \in StoreErrorsOf("mkdir")
            /\ Catch(c, StoreMessage(outcome, "mkdir", DirPath(DirOf(pc[c]))))
            /\ UNCHANGED dirs
    /\ UNCHANGED <<pipeline, ui>>
    /\ UNCHANGED <<adminSecret, now, files, req, normalized, rawPath,
                   validated, lastOk, overlapped>>

PathOf(c) == IF pc[c] \in {"rawOpen", "rawData"} THEN rawPath[c] ELSE NormalizedPath

\* The file at `path` holding `content`, created when it does not exist.
Put(fs, path, content) ==
    [q \in DOMAIN fs \cup {path} |-> IF q = path THEN content ELSE fs[q]]

\* An open that keeps the content of a file that exists (flag 'r+' or 'a' in
\* place of 'w').
WriteOpenNoTruncate(c, outcome) ==
    /\ pc[c] \in {"rawOpen", "normOpen"}
    /\ IF outcome = "ok"
       THEN /\ files' = Put(files, PathOf(c),
                            IF PathOf(c) \in DOMAIN files
                            THEN files[PathOf(c)] ELSE <<>>)
            /\ pc' = [pc EXCEPT ![c] = TryNext(pc[c])]
            /\ UNCHANGED <<resp, ops>>
       ELSE /\ outcome \in StoreErrorsOf("open")
            /\ Catch(c, StoreMessage(outcome, "open", PathOf(c)))
            /\ UNCHANGED files
    /\ UNCHANGED <<pipeline, ui>>
    /\ UNCHANGED <<adminSecret, now, dirs, req, normalized, rawPath,
                   validated, lastOk, overlapped>>

\* fs.writeFile, first half: open(path, 'w') creates or truncates the file.
WriteOpen(c, outcome) ==
    /\ pc[c] \in {"rawOpen", "normOpen"}
    /\ IF outcome = "ok"
       THEN /\ files' = Put(files, PathOf(c), <<>>)
            /\ pc' = [pc EXCEPT ![c] = TryNext(pc[c])]
            /\ UNCHANGED <<resp, ops>>
       ELSE /\ outcome \in StoreErrorsOf("open")
            /\ Catch(c, StoreMessage(outcome, "open", PathOf(c)))
            /\ UNCHANGED files
    /\ UNCHANGED <<pipeline, ui>>
    /\ UNCHANGED <<adminSecret, now, dirs, req, normalized, rawPath,
                   validated, lastOk, overlapped>>

\* Writing `data` at offset 0 of a file that holds `old`.
Overwrite(old, data) == data \o SubSeq(old, Len(data) + 1, Len(old))

\* What the call's write in flight has to write.
DataOf(c) ==
    IF pc[c] = "rawData" THEN SerializeRaw(req[c].payload)
    ELSE SerializeNormalized(normalized[c])

\* fs.writeFile, second half: the data is written and the promise settles.  A
\* failing write has written the first k tokens, k less than all.
WriteData(c, outcome, k) ==
    /\ pc[c] \in {"rawData", "normData"}
    /\ IF outcome = "ok"
       THEN /\ k = 0
            /\ files' = Put(files, PathOf(c), Overwrite(files[PathOf(c)], DataOf(c)))
            /\ Completed(c, "ok", NoMessage)
            /\ IF pc[c] = "rawData"
               THEN /\ pc' = [pc EXCEPT ![c] = TryNext(pc[c])]
                    /\ UNCHANGED <<resp, lastOk>>
               ELSE /\ Return(c, SuccessResponse(normalized[c], rawPath[c]))
                    /\ lastOk' = normalized[c]
       ELSE /\ outcome \in StoreErrorsOf("write")
            /\ k < Len(DataOf(c))
            /\ files' = Put(files, PathOf(c),
                            Overwrite(files[PathOf(c)], SubSeq(DataOf(c), 1, k)))
            /\ Catch(c, StoreMessage(outcome, "write", NoPath))
            /\ UNCHANGED lastOk
    /\ UNCHANGED <<pipeline, ui>>
    /\ UNCHANGED <<adminSecret, now, dirs, req, normalized, rawPath,
                   validated, overlapped>>

\* A millisecond passes.
Tick ==
    /\ now < MaxTime
    /\ now' = now + 1
    /\ UNCHANGED <<pipeline, ui>>
    /\ UNCHANGED <<adminSecret, dirs, files, pc, req, normalized, rawPath,
                   resp, validated, ops, lastOk, overlapped>>

Outcomes == {"ok"} \cup StoreErrors

MaxTokens == 2 + MaxChapters * (1 + MaxVerses)

Next ==
    \/ \E c \in Calls, r \in Requests : Start(c, r)
    \/ \E c \in Calls : ReadBody(c)
    \/ \E c \in Calls, o \in Outcomes : Mkdir(c, o)
    \/ \E c \in Calls, o \in Outcomes : WriteOpen(c, o)
    \/ \E c \in Calls, o \in Outcomes, k \in 0..MaxTokens : WriteData(c, o, k)
    \/ Tick

Spec == Init /\ [][Next]_vars

\* ----------------------------------------- validator and normalizer alone
\* The pipeline of lines 139-152 on any raw payload, with no request around
\* it: validate, then normalize the value, then normalize the output again.
PipelineInit ==
    /\ adminSecret = TheSecret
    /\ now = 0
    /\ dirs = {}
    /\ files = <<>>
    /\ pc = [c \in Calls |-> "idle"]
    /\ req = [c \in Calls |-> NoRequest]
    /\ normalized = [c \in Calls |-> NoNormalized]
    /\ rawPath = [c \in Calls |-> NoPath]
    /\ resp = [c \in Calls |-> NoResponse]
    /\ validated = {}
    /\ ops = [c \in Calls |-> <<>>]
    /\ lastOk = NoNormalized
    /\ overlapped = FALSE
    /\ document \in RawPayloads
    /\ verdict = NoVerdict
    /\ once = NoNormalized
    /\ twice = NoNormalized
    /\ stage = "raw"
    /\ UiOff

\* validateBhagavadGitaShastra(payload).
Validation ==
    /\ stage = "raw"
    /\ verdict' = Validate(document)
    /\ stage' = "validated"
    /\ UNCHANGED <<document, once, twice>>
    /\ UNCHANGED <<endpoint, ui>>

\* normalizeBhagavadGita(validationResult.value), past the check of line 141.
Normalization ==
    /\ stage = "validated"
    /\ Accepted(verdict)
    /\ once' = Normalize(document)
    /\ stage' = "normalized"
    /\ UNCHANGED <<document, verdict, twice>>
    /\ UNCHANGED <<endpoint, ui>>

\* The normalizer given its own output (the normalized artifact ingested
\* again).
Renormalization ==
    /\ stage = "normalized"
    /\ twice' = Normalize(once)
    /\ stage' = "renormalized"
    /\ UNCHANGED <<document, verdict, once>>
    /\ UNCHANGED <<endpoint, ui>>

PipelineNext == Validation \/ Normalization \/ Renormalization

PipelineSpec == PipelineInit /\ [][PipelineNext]_vars

\* The server side at rest, as the client pages find it: no call made, no
\* document in the pipeline.
ServerOff ==
    /\ adminSecret = TheSecret
    /\ now = 0
    /\ dirs = {}
    /\ files = <<>>
    /\ pc = [c \in Calls |-> "idle"]
    /\ req = [c \in Calls |-> NoRequest]
    /\ normalized = [c \in Calls |-> NoNormalized]
    /\ rawPath = [c \in Calls |-> NoPath]
    /\ resp = [c \in Calls |-> NoResponse]
    /\ validated = {}
    /\ ops = [c \in Calls |-> <<>>]
    /\ lastOk = NoNormalized
    /\ overlapped = FALSE
    /\ document = NoPayload
    /\ verdict = NoVerdict
    /\ once = NoNormalized
    /\ twice = NoNormalized
    /\ stage = "off"

\* ============================================================ verse reader
\* The layout and the verse page of /gitacommentaries/[chapter]/[verse].
\* Chapter and verse keys are the numbers the JSON keys spell.

\* The largest chapter number and the largest verse number of the data.
MaxKey == 3

Keys == 1 .. MaxKey

\* The verse numbers a chapter may hold: all of them, only the first, only
\* the last, all but the second, all but the first.
VerseSets == {Keys, {1}, {MaxKey}, Keys \ {2}, Keys \ {1}}

\* gitaData.chapters: chapter number -> the verse numbers of the chapter.
\* Numbers may have gaps; each chapter holds a verse.
GitaDocs ==
    UNION {[cs -> VerseSets] : cs \in (SUBSET Keys) \ {{}}}

\* The values a URL parameter can take: any number, with 0 and MaxKey + 1
\* naming nothing in any data.
ParamValues == 0 .. (MaxKey + 1)

\* The commentaries a verse carries: Object.values(verse.commentaries), or
\* none when the verse has no `commentaries`.
MaxCommentaries == 2

CommentaryCount(c, v) == (c + v) % (MaxCommentaries + 1)

\* (params.x as string) || "1".
ParamOrDefault(p) == IF p = NoParam THEN 1 ELSE p

\* An object lookup that found nothing.
Undefined == 0

\* Object.keys(gitaData.chapters).sort((a, b) => Number(a) - Number(b)).
chapterKeys(g) == SortedSeq(DOMAIN g)

\* gitaData.chapters[currentChapter] || gitaData.chapters["1"], as the key of
\* the chapter found.
currentChapterData(g, c) ==
    IF c \in DOMAIN g THEN c
    ELSE IF 1 \in DOMAIN g THEN 1
    ELSE Undefined

\* Object.keys(currentChapterData.verses).sort(...), for a chapter found.
verseKeys(g, c) == SortedSeq(g[currentChapterData(g, c)])

\* currentChapterData.verses[currentVerse] || currentChapterData.verses["1"],
\* as the key of the verse found.
currentVerseData(g, c, v) ==
    LET vs == g[currentChapterData(g, c)]
    IN  IF v \in vs THEN v
        ELSE IF 1 \in vs THEN 1
        ELSE Undefined

\* The URL is one of the verse route; without parameters it is the route of
\* the index page, which the same layout wraps.
OnVersePage == urlChapter # NoParam /\ urlVerse # NoParam

\* The render of the layout and of the verse page reads `.verses` of the
\* chapter, that of the verse page `.commentaries` of the verse as well: what
\* is read has to be defined for the render to end.
Renders(g, c, v) ==
    /\ currentChapterData(g, c) # Undefined
    /\ OnVersePage => currentVerseData(g, c, v) # Undefined

\* Array.prototype.indexOf: zero-based, -1 when absent.
IndexOf(seq, x) ==
    IF \E i \in DOMAIN seq : seq[i] = x
    THEN (CHOOSE i \in DOMAIN seq : seq[i] = x) - 1
    ELSE -1

\* The zero-based element of an array.
At(seq, i) == seq[i + 1]

\* No router.push.
NoMove == <<0, 0>>

\* The verse of the previous chapter a Previous click lands on, were it the
\* chapter's first.
PreviousTargetFirstVerse(g, c, v) ==
    LET vk == verseKeys(g, c)
        i  == IndexOf(vk, v)
        ck == chapterKeys(g)
        j  == IndexOf(ck, c)
    IN  IF i > 0 THEN <<c, At(vk, i - 1)>>
        ELSE IF j > 0
             THEN <<At(ck, j - 1), At(SortedSeq(g[At(ck, j - 1)]), 0)>>
             ELSE NoMove
\* handlePrevious: the URL it pushes.
PreviousTarget(g, c, v) ==
    LET vk == verseKeys(g, c)
        i  == IndexOf(vk, v)
        ck == chapterKeys(g)
        j  == IndexOf(ck, c)
    IN  IF i > 0 THEN <<c, At(vk, i - 1)>>
        ELSE IF j > 0
             THEN LET prevChapVerses == SortedSeq(g[At(ck, j - 1)])
                  IN  <<At(ck, j - 1), At(prevChapVerses, Len(prevChapVerses) - 1)>>
             ELSE NoMove

\* handleNext entering the next chapter at verse 1 whatever its keys.
NextTargetVerseOne(g, c, v) ==
    LET vk == verseKeys(g, c)
        i  == IndexOf(vk, v)
        ck == chapterKeys(g)
        j  == IndexOf(ck, c)
    IN  IF i < Len(vk) - 1 THEN <<c, At(vk, i + 1)>>
        ELSE IF j < Len(ck) - 1 THEN <<At(ck, j + 1), 1>>
        ELSE NoMove
\* handleNext counting on: the verse after v is v + 1, the chapter after c is
\* c + 1 and starts at verse 1.
NextTargetContiguous(g, c, v) ==
    LET vk == verseKeys(g, c)
        ck == chapterKeys(g)
    IN  IF v < At(vk, Len(vk) - 1) THEN <<c, v + 1>>
        ELSE IF c < At(ck, Len(ck) - 1) THEN <<c + 1, 1>>
        ELSE NoMove
\* handleNext: the URL it pushes.
NextTarget(g, c, v) ==
    LET vk == verseKeys(g, c)
        i  == IndexOf(vk, v)
        ck == chapterKeys(g)
        j  == IndexOf(ck, c)
    IN  IF i < Len(vk) - 1 THEN <<c, At(vk, i + 1)>>
        ELSE IF j < Len(ck) - 1
             THEN LET nextChapVerses == SortedSeq(g[At(ck, j + 1)])
                  IN  <<At(ck, j + 1), At(nextChapVerses, 0)>>
             ELSE NoMove

isFirstVerse(g, c, v) ==
    c = At(chapterKeys(g), 0) /\ v = At(verseKeys(g, c), 0)

isLastVerse(g, c, v) ==
    /\ c = At(chapterKeys(g), Len(chapterKeys(g)) - 1)
    /\ v = At(verseKeys(g, c), Len(verseKeys(g, c)) - 1)

\* What the page and the layout read from the URL.
currentChapter == ParamOrDefault(urlChapter)

currentVerse == ParamOrDefault(urlVerse)

\* The first verse of the first chapter of the data.
FirstPosition(g) ==
    <<At(chapterKeys(g), 0), At(SortedSeq(g[At(chapterKeys(g), 0)]), 0)>>

\* The run of Next clicks the trail follows: it starts over at every arrival
\* at the first verse, grows with a Next click and ends with any other move.
Trail(moved, byNext, to) ==
    IF byNext /\ trail # <<>>
    THEN (IF moved THEN Append(trail, to) ELSE trail)
    ELSE IF to = FirstPosition(gita) THEN <<to>> ELSE <<>>

\* The navigation control `control` has run its handler at the current URL.
Clicked(control) ==
    /\ lastClick' = control
    /\ cameFrom' = <<currentChapter, currentVerse>>

\* router.push with the layout mounted again as well.
navigateToRemounting(chap, ver) ==
    /\ urlChapter' = chap
    /\ urlVerse' = ver
    /\ openCommentaryIndex' =
          IF <<chap, ver>> # <<urlChapter, urlVerse>> THEN 0
          ELSE openCommentaryIndex
    /\ isChapterExpanded' = FALSE
    /\ isVerseExpanded' = FALSE
    /\ UNCHANGED gita
\* router.push with the page kept mounted.
navigateToKeeping(chap, ver) ==
    /\ urlChapter' = chap
    /\ urlVerse' = ver
    /\ UNCHANGED <<gita, isChapterExpanded, isVerseExpanded, openCommentaryIndex>>
\* navigateTo: router.push(`/gitacommentaries/${chap}/${ver}`). The layout
\* stays mounted and keeps its state; a different URL mounts the page anew,
\* with useState(0) for the open commentary.
navigateTo(chap, ver) ==
    /\ urlChapter' = chap
    /\ urlVerse' = ver
    /\ openCommentaryIndex' =
          IF <<chap, ver>> # <<urlChapter, urlVerse>> THEN 0
          ELSE openCommentaryIndex
    /\ UNCHANGED <<gita, isChapterExpanded, isVerseExpanded>>

\* The reader opens a URL of the route (or the route without parameters).
ReaderInit ==
    /\ ServerOff
    /\ BookOff
    /\ LibraryOff
    /\ NavbarOff
    /\ gita \in GitaDocs
    /\ \/ urlChapter = NoParam /\ urlVerse = NoParam
       \/ urlChapter \in ParamValues /\ urlVerse \in ParamValues
    /\ isChapterExpanded = FALSE
    /\ isVerseExpanded = FALSE
    /\ openCommentaryIndex = 0
    /\ trail = IF <<urlChapter, urlVerse>> = FirstPosition(gita)
               THEN <<FirstPosition(gita)>> ELSE <<>>
    /\ lastClick = "none"
    /\ cameFrom = NoMove

\* A click on Next: nothing while the button is disabled, else handleNext.
ClickNext ==
    /\ OnVersePage
    /\ Renders(gita, currentChapter, currentVerse)
    /\ LET to == NextTarget(gita, currentChapter, currentVerse)
           moved == ~isLastVerse(gita, currentChapter, currentVerse) /\ to # NoMove
       IN  /\ IF moved
              THEN navigateTo(to[1], to[2])
              ELSE UNCHANGED <<gita, urlChapter, urlVerse, isChapterExpanded,
                               isVerseExpanded, openCommentaryIndex>>
           /\ trail' = Trail(moved, TRUE,
                             IF moved THEN to ELSE <<currentChapter, currentVerse>>)
           /\ IF moved THEN Clicked("next") ELSE UNCHANGED <<lastClick, cameFrom>>
    /\ UNCHANGED besidesReader

\* A click on Previous: nothing while the button is disabled, else
\* handlePrevious.
ClickPrevious ==
    /\ OnVersePage
    /\ Renders(gita, currentChapter, currentVerse)
    /\ LET to == PreviousTarget(gita, currentChapter, currentVerse)
           moved == ~isFirstVerse(gita, currentChapter, currentVerse) /\ to # NoMove
       IN  /\ IF moved
              THEN navigateTo(to[1], to[2])
              ELSE UNCHANGED <<gita, urlChapter, urlVerse, isChapterExpanded,
                               isVerseExpanded, openCommentaryIndex>>
           /\ trail' = Trail(moved, FALSE,
                             IF moved THEN to ELSE <<currentChapter, currentVerse>>)
           /\ IF moved THEN Clicked("previous") ELSE UNCHANGED <<lastClick, cameFrom>>
    /\ UNCHANGED besidesReader

\* A click on the layout's button of chapter cKey.
ClickChapter(cKey) ==
    /\ Renders(gita, currentChapter, currentVerse)
    /\ cKey \in DOMAIN gita
    /\ LET chapterVerses == SortedSeq(gita[cKey])
       IN  /\ navigateTo(cKey, At(chapterVerses, 0))
           /\ trail' = Trail(TRUE, FALSE, <<cKey, At(chapterVerses, 0)>>)
           /\ Clicked("chapter")
    /\ UNCHANGED besidesReader

\* A click on the layout's button of verse vKey of the chapter shown.
ClickVerse(vKey) ==
    /\ Renders(gita, currentChapter, currentVerse)
    /\ vKey \in gita[currentChapterData(gita, currentChapter)]
    /\ navigateTo(currentChapter, vKey)
    /\ trail' = Trail(TRUE, FALSE, <<currentChapter, vKey>>)
    /\ Clicked("verse")
    /\ UNCHANGED besidesReader

\* A click on the header of the chapter accordion.
ToggleChapters ==
    /\ Renders(gita, currentChapter, currentVerse)
    /\ isChapterExpanded' = ~isChapterExpanded
    /\ UNCHANGED <<gita, urlChapter, urlVerse, isVerseExpanded,
                   openCommentaryIndex, trail, lastClick, cameFrom>>
    /\ UNCHANGED besidesReader

\* A click on the header of the verse accordion.
ToggleVerses ==
    /\ Renders(gita, currentChapter, currentVerse)
    /\ isVerseExpanded' = ~isVerseExpanded
    /\ UNCHANGED <<gita, urlChapter, urlVerse, isChapterExpanded,
                   openCommentaryIndex, trail, lastClick, cameFrom>>
    /\ UNCHANGED besidesReader

\* A click on the header of commentary idx of the verse shown.
ClickCommentary(idx) ==
    /\ OnVersePage
    /\ Renders(gita, currentChapter, currentVerse)
    /\ idx < CommentaryCount(currentChapterData(gita, currentChapter),
                             currentVerseData(gita, currentChapter, currentVerse))
    /\ openCommentaryIndex' = IF openCommentaryIndex = idx THEN NullIndex ELSE idx
    /\ UNCHANGED <<gita, urlChapter, urlVerse, isChapterExpanded,
                   isVerseExpanded, trail, lastClick, cameFrom>>
    /\ UNCHANGED besidesReader

ReaderNext ==
    \/ ClickNext
    \/ ClickPrevious
    \/ \E cKey \in Keys : ClickChapter(cKey)
    \/ \E vKey \in Keys : ClickVerse(vKey)
    \/ ToggleChapters
    \/ ToggleVerses
    \/ \E idx \in 0 .. (MaxCommentaries - 1) : ClickCommentary(idx)

ReaderSpec == ReaderInit /\ [][ReaderNext]_vars

\* ======================================================== book detail page
\* BookDetailPageClient of readingpart.tsx.

\* The most chapters a book holds.
MaxBookChapters == 4

\* The page mounts with the chapters of a book.
BookInit ==
    /\ ServerOff
    /\ ReaderOff
    /\ LibraryOff
    /\ NavbarOff
    /\ bookChapters \in 0 .. MaxBookChapters
    /\ openChapterIndex = NullIndex
    /\ isChapterListOpen = FALSE
    /\ isSidebarOpen = FALSE
    /\ chapterClick = NoChapterClick

\* handleChapterClick opening the chapter clicked, open already or not.
handleChapterClickOpening(index) ==
    /\ isChapterListOpen
    /\ index < bookChapters
    /\ openChapterIndex' = index
    /\ chapterClick' = [index |-> index, found |-> openChapterIndex]
    /\ UNCHANGED <<bookChapters, isChapterListOpen, isSidebarOpen>>
    /\ UNCHANGED besidesBook
\* handleChapterClick(index), by a click on the header of chapter `index`,
\* which is rendered while the chapters list is open.
handleChapterClick(index) ==
    /\ isChapterListOpen
    /\ index < bookChapters
    /\ openChapterIndex' = IF openChapterIndex = index THEN NullIndex ELSE index
    /\ chapterClick' = [index |-> index, found |-> openChapterIndex]
    /\ UNCHANGED <<bookChapters, isChapterListOpen, isSidebarOpen>>
    /\ UNCHANGED besidesBook

\* A click on the "Chapters" header: setIsChapterListOpen(prev => !prev).
ToggleChapterList ==
    /\ isChapterListOpen' = ~isChapterListOpen
    /\ UNCHANGED <<bookChapters, openChapterIndex, isSidebarOpen, chapterClick>>
    /\ UNCHANGED besidesBook

\* A click on "Book Details": setIsSidebarOpen(!isSidebarOpen).
ToggleSidebar ==
    /\ isSidebarOpen' = ~isSidebarOpen
    /\ UNCHANGED <<bookChapters, openChapterIndex, isChapterListOpen, chapterClick>>
    /\ UNCHANGED besidesBook

BookNext ==
    \/ \E index \in 0 .. (MaxBookChapters - 1) : handleChapterClick(index)
    \/ ToggleChapterList
    \/ ToggleSidebar

BookSpec == BookInit /\ [][BookNext]_vars

\* ============================================================ library page
\* LibraryPage of library/page.tsx. The catalog (book_data.json) is a list of
\* JsonBook; a title is the sequence of its characters.

\* The most books of a catalog.
MaxBooks == 2

\* One character of String.prototype.toLowerCase().
LowerChar(ch) == IF ch = "G" THEN "g" ELSE IF ch = "A" THEN "a" ELSE ch

\* s.toLowerCase().
toLowerCase(s) == [i \in DOMAIN s |-> LowerChar(s[i])]

\* s.includes(q): q occurs in s at some offset.
includes(s, q) ==
    \E k \in 0 .. Len(s) :
        /\ k + Len(q) <= Len(s)
        /\ \A i \in 1 .. Len(q) : s[k + i] = q[i]

\* array.includes(x), and array.some(f) for f = (x => other.includes(x)).
arrayIncludes(array, x) == \E i \in DOMAIN array : array[i] = x

someIncluded(array, other) == \E i \in DOMAIN array : arrayIncludes(other, array[i])

\* array.filter(x => x !== removed) and [...array, added].
without(array, removed) == SelectSeq(array, LAMBDA x : x # removed)

\* A JsonBook, with the labels of its categories and sects and the names of
\* its authors.
JsonBook(en, sa, authors, categories, sects) ==
    [title |-> [en |-> en, sa |-> sa], authors |-> authors,
     categories |-> categories, sects |-> sects]

\* The books a catalog is made of.
BookShapes ==
    { JsonBook(<<"G", "a">>, <<"a", "g">>, <<"vyasa">>, <<"smriti">>,
               <<"advaita", "dvaita">>),
      JsonBook(<<"a", "G", "1">>, <<"g", "g">>, <<"vyasa", "">>,
               <<"shruti", "smriti">>, <<>>),
      JsonBook(<<"1", "a">>, <<"A">>, <<"madhva">>, <<>>, <<"dvaita">>) }

\* The catalogs: every list of at most MaxBooks books.
Catalogs == UNION {[1 .. n -> BookShapes] : n \in 0 .. MaxBooks}

\* What is typed into the search box: nothing, a letter, letters in the other
\* case than the titles have them, a character without case, letters no
\* title has in a row.
Queries == {<<>>, <<"g">>, <<"G", "A">>, <<"a", "g">>, <<"1">>, <<"g", "g", "a">>}

\* The elements of an array.
Range(array) == {array[i] : i \in DOMAIN array}

\* categoriesList, authorsList, sectsList: the labels and the non-empty names
\* the catalog holds (their sort order shows in the panels only).
categoriesList == UNION {Range(books[i].categories) : i \in DOMAIN books}

authorsList == UNION {Range(books[i].authors) : i \in DOMAIN books} \ {""}

sectsList == UNION {Range(books[i].sects) : i \in DOMAIN books}

\* The filter of filteredBooks with the search compared as typed.
matchesCaseSensitive(book) ==
    /\ \/ includes(book.title.en, searchQuery)
       \/ includes(book.title.sa, searchQuery)
    /\ \/ Len(selectedCategories) = 0
       \/ someIncluded(selectedCategories, book.categories)
    /\ \/ selectedAuthor = ""
       \/ arrayIncludes(book.authors, selectedAuthor)
    /\ \/ Len(selectedSects) = 0
       \/ someIncluded(selectedSects, book.sects)
\* The callback of books.filter in filteredBooks: matchesSearch &&
\* matchesCategory && matchesAuthor && matchesSect.
matches(book) ==
    /\ \/ includes(toLowerCase(book.title.en), toLowerCase(searchQuery))
       \/ includes(toLowerCase(book.title.sa), toLowerCase(searchQuery))
    /\ \/ Len(selectedCategories) = 0
       \/ someIncluded(selectedCategories, book.categories)
    /\ \/ selectedAuthor = ""
       \/ arrayIncludes(book.authors, selectedAuthor)
    /\ \/ Len(selectedSects) = 0
       \/ someIncluded(selectedSects, book.sects)

\* filteredBooks: books.filter(...), recomputed at the render that follows a
\* change of the filter state.
filteredBooks == SelectSeq(books, matches)

hasActiveFilters ==
    \/ searchQuery # <<>>
    \/ Len(selectedCategories) > 0
    \/ selectedAuthor # ""
    \/ Len(selectedSects) > 0

\* The page mounts with a catalog.
LibraryInit ==
    /\ ServerOff
    /\ ReaderOff
    /\ BookOff
    /\ NavbarOff
    /\ books \in Catalogs
    /\ searchQuery = <<>>
    /\ selectedCategories = <<>>
    /\ selectedAuthor = ""
    /\ selectedSects = <<>>
    /\ isCategoryOpen = TRUE
    /\ isAuthorOpen = FALSE
    /\ isSectOpen = FALSE
    /\ listed = books

\* The render after a handler: the page lists filteredBooks of the new state.
Rendered ==
    /\ UNCHANGED <<books>>
    /\ listed' = filteredBooks'
    /\ UNCHANGED besidesLibrary

\* Typing in the search box: setSearchQuery(e.target.value).
SetSearchQuery(value) ==
    /\ searchQuery' = value
    /\ UNCHANGED <<selectedCategories, selectedAuthor, selectedSects,
                   isCategoryOpen, isAuthorOpen, isSectOpen>>
    /\ Rendered

\* toggleCategory(category), by a button of the open category panel.
toggleCategory(category) ==
    /\ isCategoryOpen
    /\ category \in categoriesList
    /\ selectedCategories' =
          IF arrayIncludes(selectedCategories, category)
          THEN without(selectedCategories, category)
          ELSE Append(selectedCategories, category)
    /\ UNCHANGED <<searchQuery, selectedAuthor, selectedSects,
                   isCategoryOpen, isAuthorOpen, isSectOpen>>
    /\ Rendered

\* setSelectedAuthor(e.target.value), by the select of the open author panel.
SetSelectedAuthor(value) ==
    /\ isAuthorOpen
    /\ value \in authorsList \cup {""}
    /\ selectedAuthor' = value
    /\ UNCHANGED <<searchQuery, selectedCategories, selectedSects,
                   isCategoryOpen, isAuthorOpen, isSectOpen>>
    /\ Rendered

\* toggleSect(sect), by a button of the open sect panel.
toggleSect(sect) ==
    /\ isSectOpen
    /\ sect \in sectsList
    /\ selectedSects' =
          IF arrayIncludes(selectedSects, sect)
          THEN without(selectedSects, sect)
          ELSE Append(selectedSects, sect)
    /\ UNCHANGED <<searchQuery, selectedCategories, selectedAuthor,
                   isCategoryOpen, isAuthorOpen, isSectOpen>>
    /\ Rendered

\* clearAllFilters, by a "Clear all filters" button.
clearAllFilters ==
    /\ hasActiveFilters
    /\ searchQuery' = <<>>
    /\ selectedCategories' = <<>>
    /\ selectedAuthor' = ""
    /\ selectedSects' = <<>>
    /\ UNCHANGED <<isCategoryOpen, isAuthorOpen, isSectOpen>>
    /\ Rendered

\* The headers of the three filter panels.
ToggleCategoryPanel ==
    /\ isCategoryOpen' = ~isCategoryOpen
    /\ UNCHANGED <<searchQuery, selectedCategories, selectedAuthor,
                   selectedSects, isAuthorOpen, isSectOpen>>
    /\ Rendered

ToggleAuthorPanel ==
    /\ isAuthorOpen' = ~isAuthorOpen
    /\ UNCHANGED <<searchQuery, selectedCategories, selectedAuthor,
                   selectedSects, isCategoryOpen, isSectOpen>>
    /\ Rendered

ToggleSectPanel ==
    /\ isSectOpen' = ~isSectOpen
    /\ UNCHANGED <<searchQuery, selectedCategories, selectedAuthor,
                   selectedSects, isCategoryOpen, isAuthorOpen>>
    /\ Rendered

\* The labels and names of the book shapes.
Labels == {"shruti", "smriti", "advaita", "dvaita", "vyasa", "madhva", ""}

LibraryNext ==
    \/ \E value \in Queries : SetSearchQuery(value)
    \/ \E category \in Labels : toggleCategory(category)
    \/ \E value \in Labels : SetSelectedAuthor(value)
    \/ \E sect \in Labels : toggleSect(sect)
    \/ clearAllFilters
    \/ ToggleCategoryPanel
    \/ ToggleAuthorPanel
    \/ ToggleSectPanel

LibrarySpec == LibraryInit /\ [][LibraryNext]_vars

\* ================================================================== navbar
\* Navbar of components/Navbar.tsx. An event handler runs to its end, React
\* renders, and the effects whose dependencies changed run, in the order they
\* are declared, before the next event is handled.

\* The hrefs of navItems.
Paths == {"/", "/library", "/about", "/contact"}

\* The scroll offset above which the bar is styled as scrolled.
ScrollThreshold == 20

\* The scroll offsets tried: the top, the threshold, one past it.
ScrollOffsets == {0, ScrollThreshold, ScrollThreshold + 1}

\* The dependency [isOpen] as the scroll lock effect records it.
LockDep == IF isOpen THEN "open" ELSE "closed"

\* Which effects wait to run after the last render.
LockEffectPending == mounted /\ lockRanFor # LockDep

RouteEffectPending == mounted /\ routeRanFor # pathname

Settled == ~LockEffectPending /\ ~RouteEffectPending

\* The navbar mounts on a page: useState(false) twice, effects to run.
NavbarInit ==
    /\ ServerOff
    /\ ReaderOff
    /\ BookOff
    /\ LibraryOff
    /\ mounted = TRUE
    /\ isOpen = FALSE
    /\ isScrolled = FALSE
    /\ pathname \in Paths
    /\ bodyOverflow = ""
    /\ lockRanFor = "never"
    /\ routeRanFor = "never"
    /\ lastEvent = "mount"

\* The body scroll lock effect: the cleanup of its previous run, then its
\* body for the isOpen rendered.
ScrollLockEffect ==
    /\ LockEffectPending
    /\ bodyOverflow' = IF isOpen THEN "hidden" ELSE "unset"
    /\ lockRanFor' = LockDep
    /\ UNCHANGED <<mounted, isOpen, isScrolled, pathname, routeRanFor, lastEvent>>
    /\ UNCHANGED besidesNavbar

\* The route change effect leaving the menu as it is.
RouteChangeEffectKeeping ==
    /\ RouteEffectPending
    /\ ~LockEffectPending
    /\ routeRanFor' = pathname
    /\ UNCHANGED <<mounted, isOpen, isScrolled, pathname, bodyOverflow, lockRanFor,
                   lastEvent>>
    /\ UNCHANGED besidesNavbar
\* The route change effect: setIsOpen(false). It is declared after the scroll
\* lock effect and runs after it.
RouteChangeEffect ==
    /\ RouteEffectPending
    /\ ~LockEffectPending
    /\ isOpen' = FALSE
    /\ routeRanFor' = pathname
    /\ UNCHANGED <<mounted, isScrolled, pathname, bodyOverflow, lockRanFor,
                   lastEvent>>
    /\ UNCHANGED besidesNavbar

\* A click on the menu button: setIsOpen(!isOpen).
ToggleMenu ==
    /\ mounted
    /\ Settled
    /\ isOpen' = ~isOpen
    /\ lastEvent' = "toggle"
    /\ UNCHANGED <<mounted, isScrolled, pathname, bodyOverflow, lockRanFor,
                   routeRanFor>>
    /\ UNCHANGED besidesNavbar

\* A navigation to another route: usePathname() returns `path`.
RouteChange(path) ==
    /\ mounted
    /\ Settled
    /\ path # pathname
    /\ pathname' = path
    /\ lastEvent' = IF isOpen THEN "routeMenuOpen" ELSE "route"
    /\ UNCHANGED <<mounted, isOpen, isScrolled, bodyOverflow, lockRanFor,
                   routeRanFor>>
    /\ UNCHANGED besidesNavbar

\* handleScroll at scroll offset y: setIsScrolled(window.scrollY > 20).
handleScroll(y) ==
    /\ mounted
    /\ Settled
    /\ isScrolled' = (y > ScrollThreshold)
    /\ lastEvent' = "scroll"
    /\ UNCHANGED <<mounted, isOpen, pathname, bodyOverflow, lockRanFor,
                   routeRanFor>>
    /\ UNCHANGED besidesNavbar

\* The navbar unmounts: the cleanup of the scroll lock effect runs.
Unmount ==
    /\ mounted
    /\ Settled
    /\ mounted' = FALSE
    /\ bodyOverflow' = "unset"
    /\ lockRanFor' = "never"
    /\ routeRanFor' = "never"
    /\ lastEvent' = "unmount"
    /\ UNCHANGED <<isOpen, isScrolled, pathname>>
    /\ UNCHANGED besidesNavbar

\* The navbar mounts again, on any route.
Mount(path) ==
    /\ ~mounted
    /\ mounted' = TRUE
    /\ isOpen' = FALSE
    /\ isScrolled' = FALSE
    /\ pathname' = path
    /\ lastEvent' = "mount"
    /\ UNCHANGED <<bodyOverflow, lockRanFor, routeRanFor>>
    /\ UNCHANGED besidesNavbar

NavbarNext ==
    \/ ScrollLockEffect
    \/ RouteChangeEffect
    \/ ToggleMenu
    \/ \E path \in Paths : RouteChange(path)
    \/ \E y \in ScrollOffsets : handleScroll(y)
    \/ Unmount
    \/ \E path \in Paths : Mount(path)

NavbarSpec == NavbarInit /\ [][NavbarNext]_vars

\* ================================================================== claims
Done(c) == pc[c] = "done"

\* The call passed the envelope and auth checks, as the request itself shows.
PassesEnvelope(c) ==
    /\ adminSecret # ""
    /\ req[c].json
    /\ req[c].kind = "object"
    /\ req[c].hasPassword
    /\ req[c].hasPayload
    /\ req[c].adminPassword = StrValue(adminSecret)

\* The validator returned ok=false for the payload of call c.
Rejected(c) == c \in validated /\ ~Validate(req[c].payload).ok

\* C1: a call whose payload the validator rejects has halted with the
\* validator's error list in a "Validation failed" response, has not been
\* normalized and has completed or started no store operation: no directory
\* made, no file opened or written.
C1_RejectedWritesNothing ==
    \A c \in Calls :
        Rejected(c) =>
            /\ Done(c)
            /\ ~resp[c].ok
            /\ resp[c].status = 400
            /\ resp[c].message = "Validation failed"
            /\ resp[c].errors = Validate(req[c].payload).errors
            /\ ~normalized[c].present
            /\ rawPath[c] = NoPath
            /\ ops[c] = <<>>

\* A rejected call, with more than one error or not, that ended while the
\* artifacts of an earlier ingestion exist.
C1_Witness ==
    \E c \in Calls :
        /\ Rejected(c)
        /\ Done(c)
        /\ resp[c].errors # <<>>
        /\ NormalizedPath \in DOMAIN files
        /\ files[NormalizedPath] # <<>>

\* The store operations of the try block, in the code's order.
TryOps == <<"mkdirRaw", "mkdirNorm", "writeRaw", "writeNorm">>

OpOk(c, op) ==
    \E i \in 1..Len(ops[c]) : ops[c][i].op = op /\ ops[c][i].result = "ok"

OpFailed(c, op) ==
    \E i \in 1..Len(ops[c]) : ops[c][i].op = op /\ ops[c][i].result # "ok"

StoreFailed(c) == \E op \in {TryOps[i] : i \in 1..4} : OpFailed(c, op)

\* C2: a call reports success only with the summary and both artifact
\* locations and only after both directories were made and both its raw file
\* and its normalized file were written; a call one of whose store operations
\* failed reports failure.
C2_SuccessOnlyIfBothWritten ==
    \A c \in Calls :
        /\ resp[c].ok =>
              /\ Done(c)
              /\ \A op \in {TryOps[i] : i \in 1..4} : OpOk(c, op)
              /\ ~StoreFailed(c)
              /\ resp[c].status = 200
              /\ resp[c].normalizedSummary # NoSummary
              /\ resp[c].rawPath = rawPath[c]
              /\ resp[c].rawPath # NoPath
              /\ resp[c].normalizedPath = NormalizedPath
              /\ {rawPath[c], NormalizedPath} \subseteq DOMAIN files
              /\ {"raw-data", "data"} \subseteq dirs
        /\ (Done(c) /\ StoreFailed(c)) => (~resp[c].ok /\ resp[c].status = 500)

\* One call has reported success and another has failed in its normalized
\* write after its raw write succeeded.
C2_Witness ==
    \E c, d \in Calls :
        /\ Done(c) /\ resp[c].ok
        /\ Done(d) /\ OpOk(d, "writeRaw") /\ OpFailed(d, "writeNorm")

\* C5: the summary a successful call reports counts the mappings of its
\* normalized document: chapters is the number of chapter keys, verses the
\* number of (chapter key, verse key) pairs, whatever total the payload carries.
C5_SummaryCountsMappings ==
    \A c \in Calls :
        (Done(c) /\ resp[c].ok) =>
            /\ resp[c].normalizedSummary.chapters =
                  Cardinality(DOMAIN normalized[c].chapters)
            /\ resp[c].normalizedSummary.verses =
                  Cardinality({cv \in (1..MaxChapters) \X (1..MaxVerses) :
                      /\ cv[1] \in DOMAIN normalized[c].chapters
                      /\ cv[2] \in DOMAIN normalized[c].chapters[cv[1]].verses})

\* A successful ingestion of a document with a chapter that has no verses and
\* a chapter that has some, whose supplied total is not its number of verses.
C5_Witness ==
    \E c \in Calls :
        /\ Done(c) /\ resp[c].ok
        /\ \E a, b \in DOMAIN normalized[c].chapters :
              /\ DOMAIN normalized[c].chapters[a].verses = {}
              /\ DOMAIN normalized[c].chapters[b].verses # {}
        /\ req[c].payload.total # resp[c].normalizedSummary.verses

\* The request of call c fails one of the envelope and auth checks.
FailsEnvelope(c) ==
    \/ adminSecret = ""
    \/ ~req[c].json
    \/ req[c].kind # "object"
    \/ ~req[c].hasPassword
    \/ ~req[c].hasPayload
    \/ req[c].adminPassword.type # "string"
    \/ req[c].adminPassword.v # adminSecret

\* C6: a call whose request fails an envelope or auth check never reaches the
\* validator, the normalizer or the store, and ends with an error response of
\* status 400, 401 or 500.
C6_EnvelopeFirst ==
    \A c \in Calls :
        (pc[c] # "idle" /\ FailsEnvelope(c)) =>
            /\ pc[c] \in {"json", "done"}
            /\ c \notin validated
            /\ ~normalized[c].present
            /\ ops[c] = <<>>
            /\ Done(c) => (~resp[c].ok /\ resp[c].status \in {400, 401, 500}
                           /\ resp[c].errors = <<>> /\ resp[c].details = NoMessage)

\* A call with a valid payload and the wrong password has been refused with
\* 401 while the secret is set.
C6_Witness ==
    \E c \in Calls :
        /\ Done(c)
        /\ adminSecret # ""
        /\ req[c].hasPayload /\ req[c].hasPassword
        /\ Validate(req[c].payload).ok
        /\ req[c].adminPassword.type = "string"
        /\ req[c].adminPassword.v # adminSecret
        /\ resp[c].status = 401

\* The error message of the store operation of call c that failed.
FailureOf(c) == ops[c][Len(ops[c])].message

\* C7: a call that ended on a store failure reports status 500 with the
\* filesystem message and the store's own error message as details and no
\* validation errors; a rejected call reports status 400, "Validation failed",
\* the error list and no details.  Each form is reported for its own kind of
\* failure only.
C7_FailureCategories ==
    \A c \in Calls :
        Done(c) =>
            /\ StoreFailed(c) <=>
                  resp[c].message = "Failed to write scripture data to the filesystem."
            /\ StoreFailed(c) =>
                  /\ resp[c].status = 500
                  /\ resp[c].details = FailureOf(c)
                  /\ resp[c].details.code \in StoreErrors
                  /\ resp[c].errors = <<>>
            /\ Rejected(c) <=> resp[c].message = "Validation failed"
            /\ Rejected(c) =>
                  /\ resp[c].status = 400
                  /\ resp[c].details = NoMessage
                  /\ resp[c].errors # <<>>
            /\ ~(StoreFailed(c) /\ Rejected(c))

\* Two calls ended, one rejected by the validator and one on a store failure,
\* and a third outcome: store failures with different messages exist.
C7_Witness ==
    \E c, d \in Calls :
        /\ Done(c) /\ Rejected(c)
        /\ Done(d) /\ StoreFailed(d) /\ resp[d].details.code = "ENOSPC"

Quiescent == \A c \in Calls : pc[c] \in {"idle", "done"}

\* C3: with no two calls ever overlapping and no call in flight, the
\* normalized artifact holds exactly the serialized `normalized` of the latest
\* call that reported success.
C3_ArtifactIsLatestSuccess ==
    (Quiescent /\ ~overlapped /\ lastOk.present) =>
        /\ NormalizedPath \in DOMAIN files
        /\ files[NormalizedPath] = SerializeNormalized(lastOk)

RawWriters == {c \in Calls : OpOk(c, "writeRaw")}

RawFiles == {q \in DOMAIN files : q.dir = "raw-data"}

\* C4: any two calls that wrote a raw file wrote two files, the raw file of a
\* call keeps the content that call wrote, and there are as many raw files as
\* calls that wrote one.
C4_RawTrailAppendOnly ==
    /\ \A c, d \in RawWriters : c # d => rawPath[c] # rawPath[d]
    /\ \A c \in RawWriters : files[rawPath[c]] = SerializeRaw(req[c].payload)
    /\ Cardinality(RawWriters) <= Cardinality(RawFiles)

\* C8: the response of a call whose raw write failed differs from the
\* response of a call whose normalized write failed after its raw write
\* succeeded.
C8_PartialFailureDistinct ==
    \A c, d \in Calls :
        (/\ Done(c) /\ OpFailed(c, "writeRaw")
         /\ Done(d) /\ OpOk(d, "writeRaw") /\ OpFailed(d, "writeNorm"))
        => resp[c] # resp[d]

\* The state of the spec's workflow machine call c is in.  Validating is
\* passed through inside the step that reads the body; a call refused by an
\* envelope or auth check never enters the machine's core.
Phase(c) ==
    CASE pc[c] = "idle" -> "None"
      [] pc[c] = "json" -> "Received"
      [] Done(c) /\ c \notin validated -> "Refused"
      [] Done(c) /\ ~normalized[c].present -> "Rejected"
      [] ~Done(c) -> "Normalizing"
      [] resp[c].ok -> "Persisted"
      [] OTHER -> "Failed"

PhaseEdges ==
    {<<"None", "Received">>, <<"None", "Refused">>, <<"Received", "Refused">>,
     <<"Received", "Rejected">>, <<"Received", "Normalizing">>,
     <<"Normalizing", "Persisted">>, <<"Normalizing", "Failed">>}

OpNames(c) == [i \in 1..Len(ops[c]) |-> ops[c][i].op]

\* C10: the store operations of a call run one after the other in the order
\* mkdir, mkdir, raw write, normalized write, each at most once; an operation
\* starts only after the one before it succeeded, so the normalized write is
\* in flight only after the raw write has completed successfully; a failed
\* operation ends the call, with no retry and nothing attempted after it.
C10_WritesSequentialOnce ==
    \A c \in Calls :
        /\ Len(ops[c]) <= 4
        /\ OpNames(c) = SubSeq(TryOps, 1, Len(ops[c]))
        /\ \A i \in 1..Len(ops[c]) : ops[c][i].result # "ok" => i = Len(ops[c])
        /\ StoreFailed(c) => Done(c)
        /\ pc[c] = "mkdirRaw" => ops[c] = <<>>
        /\ pc[c] = "mkdirNorm" => Len(ops[c]) = 1
        /\ pc[c] \in {"rawOpen", "rawData"} => Len(ops[c]) = 2
        /\ pc[c] \in {"normOpen", "normData"} =>
              (Len(ops[c]) = 3 /\ OpOk(c, "writeRaw"))

\* A call's raw write has failed and the call ended without a normalized
\* write, while another call has its normalized write in flight.
C10_Witness ==
    \E c, d \in Calls :
        /\ Done(c) /\ OpFailed(c, "writeRaw") /\ Len(ops[c]) = 3
        /\ pc[d] = "normData"

\* The calls that reported success.
Succeeded == {c \in Calls : Done(c) /\ resp[c].ok}

\* C11: when overlapping calls have all ended, at least two of them
\* successfully and none on a store failure, the normalized artifact holds the
\* complete serialized `normalized` of the call that completed its normalized
\* write last.
C11_LastWriterWins ==
    (/\ Quiescent
     /\ overlapped
     /\ Cardinality(Succeeded) >= 2
     /\ \A c \in Calls : ~StoreFailed(c))
    => /\ NormalizedPath \in DOMAIN files
       /\ files[NormalizedPath] = SerializeNormalized(lastOk)

\* C12: with calls that do not overlap, the normalized artifact at the moment
\* a call reports success is a function of that call's payload alone (the
\* serialized normalization of the payload), so two successful calls with the
\* same payload leave the same content, whatever the calls before them
\* ingested or left behind.
C12_DeterministicInPayload ==
    [][\A c \in Calls :
          (/\ pc[c] = "normData"
           /\ pc'[c] = "done"
           /\ resp'[c].ok
           /\ ~overlapped')
          => /\ NormalizedPath \in DOMAIN files'
             /\ files'[NormalizedPath] =
                   SerializeNormalized(Normalize(req[c].payload))]_vars

\* Two calls that did not overlap have each ingested the same document with
\* verses, and a call has succeeded with a shorter document after a longer one.
C12_Witness ==
    /\ ~overlapped
    /\ \E c, d \in Succeeded :
          /\ c # d
          /\ req[c].payload = req[d].payload
          /\ req[c].payload = FullDoc
          /\ files[NormalizedPath] = SerializeNormalized(Normalize(FullDoc))

\* The (chapter key, verse key) pairs of a document.
VerseKeys(d) ==
    UNION {{<<c, v>> : v \in DOMAIN d.chapters[c].verses} : c \in DOMAIN d.chapters}

VerseAt(d, cv) == d.chapters[cv[1]].verses[cv[2]]

\* C13: for every document the validator accepts, the normalizer's output for
\* its own output is that output: normalize(normalize(S)) = normalize(S).
C13_NormalizeIdempotent == stage = "renormalized" => twice = once

\* The normalizer has run twice on a document in which the first pass changed
\* something: a verse with commentaries, another with a location field that
\* disagrees with its keys.
C13_Witness ==
    /\ stage = "renormalized"
    /\ once.chapters # document.chapters
    /\ \E cv \in VerseKeys(document) :
          VerseAt(document, cv).commentaries.entries # {}
    /\ \E cv \in VerseKeys(document) :
          VerseAt(document, cv).location \notin
              {NoLocation, [chapter |-> cv[1], verse |-> cv[2]]}

\* C14: in every normalized document, first or second pass, every verse has the
\* location of its container keys, whatever location field the input carried;
\* the chapter and verse keys are those of the input.
C14_LocationFromKeys ==
    stage \in {"normalized", "renormalized"} =>
        /\ VerseKeys(once) = VerseKeys(document)
        /\ \A cv \in VerseKeys(once) :
              /\ VerseAt(once, cv).location.chapter = cv[1]
              /\ VerseAt(once, cv).location.verse = cv[2]
        /\ stage = "renormalized" =>
              \A cv \in VerseKeys(twice) :
                  VerseAt(twice, cv).location = [chapter |-> cv[1], verse |-> cv[2]]

\* A normalized document whose input had a verse with a location field that
\* disagrees with its keys.
C14_Witness ==
    /\ stage = "normalized"
    /\ \E cv \in VerseKeys(document) :
          /\ VerseAt(document, cv).location # NoLocation
          /\ VerseAt(document, cv).location # [chapter |-> cv[1], verse |-> cv[2]]
          /\ VerseAt(once, cv).location = [chapter |-> cv[1], verse |-> cv[2]]

\* The verses whose number field differs from their key.
Misnumbered(d) == {cv \in VerseKeys(d) : VerseAt(d, cv).number # cv[2]}

\* C15: for a payload with a verse whose number differs from its key, the
\* validator returns ok=false and the errors have an entry at
\* chapters.<c>.verses.<v> with reason key/value mismatch, for each such verse.
C15_VerseNumberMismatch ==
    (stage # "raw" /\ document.shape = "doc") =>
        \A cv \in Misnumbered(document) :
            /\ ~verdict.ok
            /\ \E i \in 1..Len(verdict.errors) :
                  /\ verdict.errors[i].chapter = cv[1]
                  /\ verdict.errors[i].verse = cv[2]
                  /\ verdict.errors[i].author = ""
                  /\ verdict.errors[i].reason = "key/value mismatch"

\* The validator has judged a payload with a misnumbered verse that has a
\* second defect elsewhere.
C15_Witness ==
    /\ stage = "validated"
    /\ document.shape = "doc"
    /\ Misnumbered(document) # {}
    /\ Len(verdict.errors) >= 2

\* A chapter that is malformed in itself: its number differs from its key, or
\* it has no verses mapping.
MalformedChapter(d, c) ==
    d.chapters[c].number # c \/ ~d.chapters[c].hasVerses

\* A verse that is malformed: number, languages or a commentary entry.
MalformedVerse(d, cv) ==
    LET verse == VerseAt(d, cv)
    IN  \/ verse.number # cv[2]
        \/ verse.languages # "ok"
        \/ \E e \in verse.commentaries.entries :
              e.authorId # e.key \/ e.texts # "ok"

\* C16: for a payload with a malformed chapter and a malformed verse in
\* another chapter that is well formed in itself, the errors have at least two
\* entries: one at the chapter and one at the verse.
C16_ValidationTotal ==
    (stage # "raw" /\ document.shape = "doc") =>
        \A c \in DOMAIN document.chapters : \A cv \in VerseKeys(document) :
            (/\ MalformedChapter(document, c)
             /\ cv[1] # c
             /\ ~MalformedChapter(document, cv[1])
             /\ MalformedVerse(document, cv))
            => /\ ~verdict.ok
               /\ Len(verdict.errors) >= 2
               /\ \E i \in 1..Len(verdict.errors) :
                     verdict.errors[i].chapter = c /\ verdict.errors[i].verse = 0
               /\ \E i \in 1..Len(verdict.errors) :
                     /\ verdict.errors[i].chapter = cv[1]
                     /\ verdict.errors[i].verse = cv[2]

\* The validator has judged a payload whose first chapter has a malformed
\* verse and whose second chapter is malformed.
C16_Witness ==
    /\ stage = "validated"
    /\ document.shape = "doc"
    /\ \E c \in DOMAIN document.chapters : \E cv \in VerseKeys(document) :
          /\ MalformedChapter(document, c)
          /\ cv[1] < c
          /\ ~MalformedChapter(document, cv[1])
          /\ MalformedVerse(document, cv)

\* The verses with no languages field.
NoLanguages(d) == {cv \in VerseKeys(d) : VerseAt(d, cv).languages = "missing"}

\* C17: the validator returns a result for every payload and throws for none;
\* a result is ok or has errors; for a payload with a verse that has no
\* languages field the result is ok=false with an error at that verse's
\* languages.
C17_MissingLanguagesNoThrow ==
    stage # "raw" =>
        /\ ~verdict.thrown
        /\ verdict.ok <=> verdict.errors = <<>>
        /\ document.shape = "doc" =>
              \A cv \in NoLanguages(document) :
                  /\ ~verdict.ok
                  /\ \E i \in 1..Len(verdict.errors) :
                        verdict.errors[i] =
                            MkError(cv[1], cv[2], "languages", "missing")

\* The validator has judged a payload with a verse that has no languages
\* field and a number that differs from its key.
C17_Witness ==
    /\ stage = "validated"
    /\ document.shape = "doc"
    /\ NoLanguages(document) \cap Misnumbered(document) # {}

\* The commentary entries of a document, each with the keys of its verse.
CommentaryEntries(d) ==
    UNION {{<<cv, e>> : e \in VerseAt(d, cv).commentaries.entries}
            : cv \in VerseKeys(d)}

\* C18: a payload with a commentary entry whose author.id differs from its key,
\* or with no non-empty text, is not accepted; an accepted payload has only
\* entries whose author.id equals their key.
C18_CommentaryAuthorKey ==
    (stage # "raw" /\ document.shape = "doc") =>
        /\ \A x \in CommentaryEntries(document) :
              (x[2].authorId # x[2].key \/ x[2].texts # "ok") =>
                  /\ ~verdict.ok
                  /\ \E i \in 1..Len(verdict.errors) :
                        /\ verdict.errors[i].chapter = x[1][1]
                        /\ verdict.errors[i].verse = x[1][2]
                        /\ verdict.errors[i].author = x[2].key
        /\ verdict.ok =>
              \A x \in CommentaryEntries(document) : x[2].authorId = x[2].key

\* The validator has rejected a payload whose only defect is an entry under
\* one author's key with another author's id, and has accepted (elsewhere) a
\* payload with two well-formed entries.
C18_Witness ==
    /\ stage = "validated"
    /\ document.shape = "doc"
    /\ Len(verdict.errors) = 1
    /\ \E x \in CommentaryEntries(document) :
          /\ x[2].key = "shankara"
          /\ x[2].authorId = "ramanuja"
          /\ x[2].texts = "ok"

\* Every string of a response body.
ResponseStrings(r) ==
    {r.message, r.details.code, r.details.syscall, r.details.path.dir,
     r.details.path.file, r.rawPath.dir, r.rawPath.file, r.normalizedPath.dir,
     r.normalizedPath.file}
    \cup UNION {{r.errors[i].field, r.errors[i].reason, r.errors[i].author}
                  : i \in 1..Len(r.errors)}

\* A secret that neither the server nor any request of the model uses.
OtherSecret == "s3"

\* The request does not supply the secret s as its adminPassword.
Differs(s, r) ==
    ~(r.json /\ r.kind = "object" /\ r.hasPassword
      /\ r.adminPassword = StrValue(s))

\* C19: with the secret set, no string of any response is the secret, and the
\* response to a request that does not supply the secret is the one the checks
\* give under every other secret the request does not supply either; such a
\* call reaches neither the validator nor the store.
C19_SecretNotExposed ==
    \A c \in Calls :
        (Done(c) /\ adminSecret # "") =>
            /\ adminSecret \notin ResponseStrings(resp[c])
            /\ Differs(adminSecret, req[c]) =>
                  /\ c \notin validated
                  /\ ops[c] = <<>>
                  /\ \A s \in Secrets \cup {OtherSecret} :
                        Differs(s, req[c]) => resp[c] = BodyError(s, req[c])

\* With the secret set, a call that supplied another string has been refused
\* with 401 and a call that supplied the secret has been answered.
C19_Witness ==
    /\ adminSecret = TheSecret
    /\ \E c, d \in Calls :
          /\ Done(c) /\ resp[c].status = 401
          /\ req[c].adminPassword = StrValue(WrongSecret)
          /\ Done(d) /\ req[d].adminPassword = StrValue(TheSecret)
          /\ d \in validated

\* The awaits of the try block at which a call is suspended.
WriteAwaits == {"rawOpen", "rawData", "normOpen", "normData"}
MkdirAwaits == {"mkdirRaw", "mkdirNorm"}

\* Call c has been validated and has not ended.
PastValidation(c) == c \in validated /\ ~Done(c)

\* C20 as stated: validation and normalization are one step, and a step of
\* another call is taken, while a call is past validation, only when that call
\* is suspended in its raw write or its normalized write.
C20_TwoSuspensionPoints ==
    /\ [](\A c \in Calls : c \in validated => (normalized[c].present \/ Done(c)))
    /\ [][\A c, d \in Calls :
            (c # d /\ PastValidation(c) /\ pc'[d] # pc[d])
            => pc[c] \in WriteAwaits]_vars

\* C20 as amended: validation and normalization are one step, and a step of
\* another call is taken, while a call is past validation, only when that call
\* is suspended at one of the four awaits of the try block: the two directory
\* creations, the raw write, the normalized write.
C20_FourSuspensionPoints ==
    /\ [](\A c \in Calls :
            /\ c \in validated => (normalized[c].present \/ Done(c))
            /\ PastValidation(c) => pc[c] \in MkdirAwaits \cup WriteAwaits)
    /\ [][\A c, d \in Calls :
            (c # d /\ PastValidation(c) /\ pc'[d] # pc[d])
            => OpOf(pc[c]) \in {TryOps[i] : i \in 1..4}
               /\ pc[c] \in MkdirAwaits \cup WriteAwaits]_vars

\* A call is suspended at its second directory creation after another call,
\* which started later, has got as far as writing its raw file.
C20_Witness ==
    \E c, d \in Calls :
        /\ c < d
        /\ pc[c] = "mkdirNorm"
        /\ pc[d] = "rawData"

\* Call c ends in this step without success.
EndsFailed(c) == pc[c] # "done" /\ pc'[c] = "done" /\ ~resp'[c].ok

\* The normalized artifact is the same before and after the step.
ArtifactUnchanged ==
    /\ (NormalizedPath \in DOMAIN files') = (NormalizedPath \in DOMAIN files)
    /\ NormalizedPath \in DOMAIN files =>
          files'[NormalizedPath] = files[NormalizedPath]

\* C21: with calls that do not overlap, at the step in which a call ends
\* without success: if its normalized write failed, its raw file is there with
\* what the call wrote and the normalized artifact holds the output of the
\* latest successful call, if there was one; if its raw write failed, the
\* normalized artifact is as it was; if it was refused, rejected or failed in a
\* directory creation, no file has changed.
C21_FailureDamagesNothing ==
    [][\A c \in Calls :
          (EndsFailed(c) /\ ~overlapped') =>
              /\ pc[c] \in {"normOpen", "normData"} =>
                    /\ rawPath[c] \in DOMAIN files'
                    /\ files'[rawPath[c]] = SerializeRaw(req[c].payload)
                    /\ lastOk.present =>
                          /\ NormalizedPath \in DOMAIN files'
                          /\ files'[NormalizedPath] = SerializeNormalized(lastOk)
              /\ pc[c] \in {"rawOpen", "rawData"} => ArtifactUnchanged
              /\ pc[c] \notin {"rawOpen", "rawData", "normOpen", "normData"} =>
                    files' = files]_vars

\* ------------------------------------------------------------ verse reader
\* The (chapter, verse) pairs the data holds.
ExistingPositions(g) == {<<c, v>> : c \in DOMAIN g, v \in Keys} \cap
                        {p \in Keys \X Keys : p[1] \in DOMAIN g /\ p[2] \in g[p[1]]}

\* p comes before q in ascending chapter order, then ascending verse order.
Precedes(p, q) == p[1] < q[1] \/ (p[1] = q[1] /\ p[2] < q[2])

\* q is the position right after p: later, with no position in between.
Follows(g, p, q) ==
    /\ q \in ExistingPositions(g)
    /\ Precedes(p, q)
    /\ ~\E r \in ExistingPositions(g) : Precedes(p, r) /\ Precedes(r, q)

IsFirstPosition(g, p) ==
    p \in ExistingPositions(g) /\ ~\E r \in ExistingPositions(g) : Precedes(r, p)

IsLastPosition(g, p) ==
    p \in ExistingPositions(g) /\ ~\E r \in ExistingPositions(g) : Precedes(p, r)

\* Where the reader is, as the URL says.
Position == <<currentChapter, currentVerse>>

Largest(S) == CHOOSE x \in S : \A y \in S : y <= x

\* The verses of chapter p[1] before verse p[2], and the chapters before it.
VersesBefore(g, p) == {v \in g[p[1]] : v < p[2]}

ChaptersBefore(g, p) == {c \in DOMAIN g : c < p[1]}

\* The last navigation click was Previous, at an existing position.
WentBack == lastClick = "previous" /\ cameFrom \in ExistingPositions(gita)

C25_AlwaysResolves == Renders(gita, currentChapter, currentVerse)

\* A click on a navigation control: Next, Previous, a chapter button or a
\* verse button.
NavigationClick ==
    \/ ClickNext
    \/ ClickPrevious
    \/ \E cKey \in Keys : ClickChapter(cKey)
    \/ \E vKey \in Keys : ClickVerse(vKey)

\* C26: no navigation click (Next, Previous, chapter button, verse button)
\* changes the layout's isChapterExpanded or isVerseExpanded, and each of the
\* two flags changes only in a click on its own accordion header.
C26_AccordionsSurviveNavigation ==
    /\ [][NavigationClick => UNCHANGED <<isChapterExpanded, isVerseExpanded>>]_vars
    /\ [][isChapterExpanded' # isChapterExpanded => ToggleChapters]_vars
    /\ [][isVerseExpanded' # isVerseExpanded => ToggleVerses]_vars

\* The chapter accordion is open and the verse accordion closed at a verse
\* that a run of Next clicks has reached.
C26_Witness ==
    /\ isChapterExpanded
    /\ ~isVerseExpanded
    /\ lastClick = "next"
    /\ cameFrom # Position
    /\ Len(trail) > 1

\* C27: every click on Next, Previous, a chapter button or a verse button
\* that changes the verse the URL names leaves openCommentaryIndex at 0,
\* whatever it was; any other change of openCommentaryIndex is made by a
\* click on a commentary header.
C27_CommentaryResets ==
    /\ [][(NavigationClick /\ Position' # Position) => openCommentaryIndex' = 0]_vars
    /\ [][(openCommentaryIndex' # openCommentaryIndex /\ openCommentaryIndex' # 0)
             => \E idx \in 0 .. (MaxCommentaries - 1) : ClickCommentary(idx)]_vars

\* The first commentary is open at a verse of two commentaries that a
\* Previous click has reached from another verse.
C27_Witness ==
    /\ lastClick = "previous"
    /\ cameFrom # Position
    /\ cameFrom \in ExistingPositions(gita)
    /\ openCommentaryIndex = 0
    /\ CommentaryCount(currentChapter, currentVerse) = 2
    /\ isVerseExpanded

\* -------------------------------------------------------- book detail page
\* The chapters whose accordion is rendered open: isOpen={openChapterIndex === i}.
ExpandedChapters == {i \in 0 .. (bookChapters - 1) : openChapterIndex = i}

\* C28: at most one chapter is expanded at any time; a click on a closed
\* chapter leaves that chapter the only expanded one, a click on the expanded
\* chapter leaves none expanded; a click on the chapters list header or on
\* the mobile sidebar toggle leaves openChapterIndex as it was.
C28_OneChapterExpanded ==
    /\ [](Cardinality(ExpandedChapters) <= 1)
    /\ [](chapterClick # NoChapterClick =>
            /\ chapterClick.found # chapterClick.index =>
                  ExpandedChapters = {chapterClick.index}
            /\ chapterClick.found = chapterClick.index => ExpandedChapters = {})
    /\ [][(ToggleChapterList \/ ToggleSidebar) => UNCHANGED openChapterIndex]_vars

\* A click on a closed chapter has collapsed another chapter that was open,
\* and the list and the sidebar were toggled since.
C28_Witness ==
    /\ chapterClick.found \notin {NullIndex, chapterClick.index}
    /\ ExpandedChapters = {chapterClick.index}
    /\ ~isChapterListOpen
    /\ isSidebarOpen

\* ------------------------------------------------------------ library page
\* Two characters are the same letter, in whatever case.
SameIgnoringCase(a, b) == a = b \/ {a, b} \in {{"g", "G"}, {"a", "A"}}

\* q occurs in t somewhere, the case of letters ignored.
IsSubstringIgnoringCase(q, t) ==
    \E k \in 0 .. (Len(t) - Len(q)) :
        \A i \in 1 .. Len(q) : SameIgnoringCase(t[k + i], q[i])

\* The four criteria of the library's filter, for one book.
Satisfies(b) ==
    /\ \/ IsSubstringIgnoringCase(searchQuery, b.title.en)
       \/ IsSubstringIgnoringCase(searchQuery, b.title.sa)
    /\ \/ Range(selectedCategories) = {}
       \/ Range(selectedCategories) \cap Range(b.categories) # {}
    /\ \/ selectedAuthor = ""
       \/ selectedAuthor \in Range(b.authors)
    /\ \/ Range(selectedSects) = {}
       \/ Range(selectedSects) \cap Range(b.sects) # {}

\* The places of the catalog whose book satisfies the criteria, and the
\* i-th of them in catalog order.
SatisfyingPlaces == {j \in DOMAIN books : Satisfies(books[j])}

PlaceOf(i) ==
    CHOOSE j \in SatisfyingPlaces :
        Cardinality({k \in SatisfyingPlaces : k <= j}) = i

\* C29: whatever filter actions were taken, the books listed are exactly the
\* books of the catalog that satisfy the four criteria together (search query
\* a case-insensitive substring of the English or the Sanskrit title; no
\* category selected or one of the selected categories on the book; no author
\* selected or the selected author on the book; no sect selected or one of
\* the selected sects on the book), in catalog order; with no filter active
\* the whole catalog is listed.
C29_ListedAreTheMatches ==
    /\ Len(listed) = Cardinality(SatisfyingPlaces)
    /\ \A i \in DOMAIN listed : listed[i] = books[PlaceOf(i)]
    /\ ~hasActiveFilters => listed = books

\* All four filters are set, the query in another case than the title it
\* matches, and one book of two is listed.
C29_Witness ==
    /\ searchQuery = <<"G", "A">>
    /\ Len(selectedCategories) = 2
    /\ selectedAuthor # ""
    /\ selectedSects # <<>>
    /\ Len(books) = 2
    /\ Len(listed) = 1

\* ------------------------------------------------------------------ navbar
\* C30: once the effects have run, the mobile menu is closed if the last
\* event was a route change, the body's overflow is "hidden" exactly while
\* the menu is open and "unset" while it is closed; and it is "unset" once
\* the navbar has unmounted.
C30_MenuClosesAndScrollLocks ==
    /\ (mounted /\ Settled /\ lastEvent \in {"route", "routeMenuOpen"}) => ~isOpen
    /\ (mounted /\ Settled) => (bodyOverflow = "hidden") = isOpen
    /\ (mounted /\ Settled /\ ~isOpen) => bodyOverflow = "unset"
    /\ ~mounted => bodyOverflow = "unset"

\* The menu was open and the body locked when the route changed; the effects
\* have run since.
C30_Witness ==
    /\ mounted
    /\ Settled
    /\ lastEvent = "routeMenuOpen"
    /\ ~isOpen
    /\ bodyOverflow = "unset"
====
